---- MODULE Spec2Model ----
(***************************************************************************)
(* LocationService (src/js/locationService.js): the location record, its   *)
(* accuracy gate, reverse geocoding, the weather cache and localStorage,   *)
(* run by a single-threaded event loop.  Every action is one event-loop    *)
(* task: a call of a method up to its first await, or the continuation of  *)
(* an async method after the promise it awaited has settled.               *)
(*                                                                         *)
(* Units.  Coordinates are integers in 1e-5 degree (313904 is 3.13904).    *)
(* Accuracies are integers in 0.1 metre (504 is 50.4 m).  Time is an       *)
(* integer clock.  Number.prototype.toFixed is computed on these integers  *)
(* and yields the string JavaScript yields.                                *)
(***************************************************************************)
EXTENDS Bags, FiniteSets, Integers, Sequences, TLC

(* ------------------------------ bounds --------------------------------- *)
MaxTasks == 2     \* requests in flight at once, of all kinds together
MaxClock == 1     \* the clock runs 0..MaxClock

(* ------------------------- nullable JS values -------------------------- *)
Null == <<>>
Some(v) == <<v>>
Val(o) == o[1]

(* ---------------------------- configuration ---------------------------- *)
ACCURACY_THRESHOLD == 50 * 10        \* 50 m, in 0.1 m
TIMEOUT == 20000

(* ------------------------------ toFixed -------------------------------- *)
Abs(n) == IF n < 0 THEN -n ELSE n

Pow10(d) == IF d = 0 THEN 1 ELSE IF d = 1 THEN 10 ELSE IF d = 2 THEN 100
            ELSE IF d = 3 THEN 1000 ELSE IF d = 4 THEN 10000 ELSE 100000

RECURSIVE PadLeft(_, _)
PadLeft(s, w) == IF Len(s) >= w THEN s ELSE PadLeft("0" \o s, w)

\* x.toFixed(d) for the number x = n / 10^scale, 0 <= d <= scale:
\* the sign first, then the magnitude rounded to d decimals, a tie going up.
toFixed(n, scale, d) ==
  LET unit == Pow10(scale - d)
      m == (Abs(n) + (unit \div 2)) \div unit
      int == ToString(m \div Pow10(d))
      frac == IF d = 0 THEN "" ELSE "." \o PadLeft(ToString(m % Pow10(d)), d)
  IN  (IF n < 0 THEN "-" ELSE "") \o int \o frac

\* Coordinates carry 5 decimals, accuracies 1.
CoordToFixed(n, d) == toFixed(n, 5, d)
AccToFixed(n, d) == toFixed(n, 1, d)

(* ------------------------------ inputs --------------------------------- *)
\* Fixes the geolocation provider can deliver.
Fixes ==
  { [latitude |-> 313904, longitude |-> 10168686, accuracy |-> 120],
    [latitude |-> 0,      longitude |-> 10168690, accuracy |-> 500],
    [latitude |-> -61236, longitude |-> 10168690, accuracy |-> 85],
    [latitude |-> 313900, longitude |-> 10168690, accuracy |-> 504],
    [latitude |-> 313900, longitude |-> 10168690, accuracy |-> 1200] }

\* GeolocationPositionError codes: 1 PERMISSION_DENIED, 2 POSITION_UNAVAILABLE,
\* 3 TIMEOUT; 0 stands for any other code.
PERMISSION_DENIED == 1
POSITION_UNAVAILABLE == 2
TIMEOUT_CODE == 3
ErrorCodes == {0, PERMISSION_DENIED, POSITION_UNAVAILABLE, TIMEOUT_CODE}

Origins == {"timer", "caller"}

\* Candidates of the reverse-geocoding answer; a component is absent (Null)
\* or a string, possibly empty.
Candidates ==
  [name : {Null, Some("Kuala Lumpur")},
   state : {Null, Some("Selangor")},
   country : {Null, Some("MY")}]
    \cup {[name |-> Some("Kuala Lumpur"), state |-> Some(""), country |-> Some("MY")],
          [name |-> Some(""), state |-> Some(""), country |-> Some("")]}

\* What `await fetch(url)` yields: a rejection, or a response with its ok flag.
FetchOutcomes == {"transport", "notok", "ok"}

\* What `await response.json()` yields for the geocoding answer.
GeoData ==
  {[kind |-> "invalid", list |-> <<>>], [kind |-> "null", list |-> <<>>],
   [kind |-> "array", list |-> <<>>]}
    \cup {[kind |-> "array", list |-> <<c>>] : c \in Candidates}

(* ------------------------------- state --------------------------------- *)
VARIABLES
  phase,        \* "constructed": script evaluated; "ready": init() has run
  supported,    \* navigator.geolocation is present
  now,          \* the clock read by new Date()
  location,     \* LocationService.location
  storage,      \* localStorage: key -> Null or the parsed JSON text
  pending,      \* getCurrentPosition requests in flight, per origin
  geo,          \* bag of reverseGeocode calls suspended at an await
  weatherData,  \* LocationService.weatherData
  wx,           \* bag of weather/forecast fetches suspended at an await
  result,       \* what the task the event loop ran last settled
  refresh,      \* the interval timer of autoRefreshLocation
  progress,     \* ProgressSteps: its overlay, its step loops, its timers
  prompt        \* the dialog and the promise of one showPrompt call

vars == <<phase, supported, now, location, storage, pending, geo,
          weatherData, wx, result, refresh, progress, prompt>>

(* --------------------------- dates and JSON ---------------------------- *)
NoDate == [type |-> "null", ms |-> 0]
NewDate(t) == [type |-> "Date", ms |-> t]

\* JSON.stringify then JSON.parse of a date-valued field: a Date comes back
\* as its ISO string, a string and null come back as they are.
DateJSON(d) == IF d.type = "Date" THEN [type |-> "string", ms |-> d.ms] ELSE d

\* The object literal of lines 15-22.
DefaultLocation ==
  [latitude |-> Null, longitude |-> Null, accuracy |-> Null,
   locationName |-> Null, source |-> "none", lastUpdate |-> NoDate]

\* JSON.parse(JSON.stringify({...})) of saveLocationToStorage.
LocationJSON(loc) ==
  [latitude |-> loc.latitude, longitude |-> loc.longitude,
   accuracy |-> loc.accuracy, locationName |-> loc.locationName,
   source |-> loc.source, lastUpdate |-> DateJSON(loc.lastUpdate)]

\* Variant: a record that is stored already is not written over.
saveLocationToStorageOnce(st, loc) ==
  IF st.userLocation = Null
    THEN [st EXCEPT !.userLocation = Some(LocationJSON(loc))]
    ELSE st

\* Variant: lastUpdate is left out of the object literal.
saveLocationToStorageNoStamp(st, loc) ==
  [st EXCEPT !.userLocation =
               Some([LocationJSON(loc) EXCEPT !.lastUpdate = NoDate])]

saveLocationToStorage(st, loc) ==
  [st EXCEPT !.userLocation = Some(LocationJSON(loc))]

\* Variant: a stored record is taken only when it passes the checks of an
\* acquisition and carries a stamp.
restoreLocationFromStorageValidating(st, loc) ==
  IF /\ st.userLocation # Null
     /\ Val(st.userLocation).accuracy # Null
     /\ Val(Val(st.userLocation).accuracy) <= ACCURACY_THRESHOLD
     /\ Val(st.userLocation).lastUpdate.type # "null"
    THEN Val(st.userLocation)
    ELSE loc

\* restoreLocationFromStorage(), lines 214-221.
restoreLocationFromStorage(st, loc) ==
  IF st.userLocation # Null THEN Val(st.userLocation) ELSE loc

\* The object literal of lines 25-29.
DefaultWeather == [current |-> Null, forecast |-> Null, lastUpdate |-> NoDate]

\* JSON.parse(JSON.stringify({...})) of saveWeatherToStorage.
WeatherJSON(w) ==
  [current |-> w.current, forecast |-> w.forecast,
   lastUpdate |-> DateJSON(w.lastUpdate)]

\* Variant: the forecast is left out of the object literal.
saveWeatherToStorageCurrentOnly(st, w) ==
  [st EXCEPT !.weatherData =
     Some(WeatherJSON([w EXCEPT !.forecast = Null]))]

\* saveWeatherToStorage(), lines 226-232.
saveWeatherToStorage(st, w) ==
  [st EXCEPT !.weatherData = Some(WeatherJSON(w))]

\* Variant: only an empty record is filled; one that holds something is
\* emptied instead.
restoreWeatherFromStorageOnce(st, w) ==
  IF st.weatherData # Null /\ w = DefaultWeather
    THEN Val(st.weatherData)
    ELSE DefaultWeather

\* restoreWeatherFromStorage(), lines 237-244.
restoreWeatherFromStorage(st, w) ==
  IF st.weatherData # Null THEN Val(st.weatherData) ELSE w

EmptyStorage == [userLocation |-> Null, weatherData |-> Null]

(* ---------------------------- acquisition ------------------------------ *)
\* Variant: `accuracy >= this.ACCURACY_THRESHOLD`.
AccuracyRejectedAtThreshold(a) == a >= ACCURACY_THRESHOLD

\* Variant: the threshold taken for a larger unit.
AccuracyRejectedWrongUnit(a) == a > 10 * ACCURACY_THRESHOLD

\* `accuracy > this.ACCURACY_THRESHOLD`
AccuracyRejected(a) == a > ACCURACY_THRESHOLD

AccuracyMessage(a) ==
  "Accuracy too low: " \o AccToFixed(a, 0) \o "m (need "
    \o AccToFixed(ACCURACY_THRESHOLD, 0) \o "m or better)"

\* Variant: the source is left as it is.
CommitFixNoSource(loc, fix, t) ==
  [loc EXCEPT !.latitude = Some(fix.latitude),
              !.longitude = Some(fix.longitude),
              !.accuracy = Some(fix.accuracy),
              !.lastUpdate = NewDate(t)]

\* Variant: the record keeps the better of the two accuracies.
CommitFixBestAccuracy(loc, fix, t) ==
  [loc EXCEPT !.latitude = Some(fix.latitude),
              !.longitude = Some(fix.longitude),
              !.accuracy = IF loc.accuracy # Null /\ Val(loc.accuracy) < fix.accuracy
                             THEN loc.accuracy ELSE Some(fix.accuracy),
              !.source = "auto",
              !.lastUpdate = NewDate(t)]

\* Variant: a fix less accurate than the one the record holds is dropped.
CommitFixIfBetter(loc, fix, t) ==
  IF loc.accuracy # Null /\ Val(loc.accuracy) < fix.accuracy
    THEN loc
    ELSE [loc EXCEPT !.latitude = Some(fix.latitude),
                     !.longitude = Some(fix.longitude),
                     !.accuracy = Some(fix.accuracy),
                     !.source = "auto",
                     !.lastUpdate = NewDate(t)]

\* Variant: the longitude is not assigned.
CommitFixNoLongitude(loc, fix, t) ==
  [loc EXCEPT !.latitude = Some(fix.latitude),
              !.accuracy = Some(fix.accuracy),
              !.source = "auto",
              !.lastUpdate = NewDate(t)]

\* Variant: lastUpdate is not assigned.
CommitFixNoStamp(loc, fix, t) ==
  [loc EXCEPT !.latitude = Some(fix.latitude),
              !.longitude = Some(fix.longitude),
              !.accuracy = Some(fix.accuracy),
              !.source = "auto"]

\* Lines 63-68: the assignments of the success callback.
CommitFix(loc, fix, t) ==
  [loc EXCEPT !.latitude = Some(fix.latitude),
              !.longitude = Some(fix.longitude),
              !.accuracy = Some(fix.accuracy),
              !.source = "auto",
              !.lastUpdate = NewDate(t)]

\* Variant: the switch has no case for POSITION_UNAVAILABLE.
getGeolocationsErrorMessageNoUnavailable(code) ==
  CASE code = PERMISSION_DENIED ->
         "Location access denied. Please enable location permissions."
    [] code = TIMEOUT_CODE ->
         "Location request timed out (" \o ToString(TIMEOUT \div 1000)
           \o "s). Could not get accurate fix. Try again outdoors."
    [] OTHER -> "An unexpected geolocation error occurred."

\* getGeolocationsErrorMessage(error), lines 248-259.
getGeolocationsErrorMessage(code) ==
  CASE code = PERMISSION_DENIED ->
         "Location access denied. Please enable location permissions."
    [] code = TIMEOUT_CODE ->
         "Location request timed out (" \o ToString(TIMEOUT \div 1000)
           \o "s). Could not get accurate fix. Try again outdoors."
    [] code = POSITION_UNAVAILABLE -> "Location data unavailable."
    [] OTHER -> "An unexpected geolocation error occurred."

(* --------------------------- reverse geocoding ------------------------- *)
\* A JavaScript number is truthy unless it is 0 (or NaN); null is falsy.
Truthy(n) == n # Null /\ Val(n) # 0

\* The negation of `!this.location.latitude || !this.location.longitude`.
HasCoordinates(loc) == Truthy(loc.latitude) /\ Truthy(loc.longitude)

\* `geo.name || ''`
OrEmpty(s) == IF s = Null \/ Val(s) = "" THEN "" ELSE Val(s)

\* Variant: the city+state branch is missing.
PlaceNameNoState(c) ==
  LET city == OrEmpty(c.name)
      state == OrEmpty(c.state)
      country == OrEmpty(c.country)
  IN  IF city # "" THEN city \o ", " \o country
      ELSE IF state # "" THEN state \o ", " \o country
      ELSE country

\* The "intelligent naming" of lines 107-120.
PlaceName(c) ==
  LET city == OrEmpty(c.name)
      state == OrEmpty(c.state)
      country == OrEmpty(c.country)
  IN  IF city # "" /\ state # "" THEN city \o ", " \o state
      ELSE IF city # "" THEN city \o ", " \o country
      ELSE IF state # "" THEN state \o ", " \o country
      ELSE country

\* Line 127.
FallbackName(loc) ==
  CoordToFixed(Val(loc.latitude), 4) \o ", "
    \o CoordToFixed(Val(loc.longitude), 4)

GeoTask(pc, loc) ==
  [pc |-> pc, latitude |-> Val(loc.latitude), longitude |-> Val(loc.longitude)]

BagAdd(b, e) == b (+) SetToBag({e})
BagRemove(b, e) == b (-) SetToBag({e})

NoResults == [current |-> Null, forecast |-> Null]

\* What one event-loop task settled.
\*   settled   how the promise of the operation the task belongs to settled
\*             in it: "resolved", "rejected", or "none" when it did not
\*   message   the message of the Error of a rejection
\*   value     the value a weather fetch returned
\*   all, allValue   the same for the getAllWeatherData that awaits the
\*             operation, when it settled in this task too
Nothing ==
  [settled |-> "none", message |-> "", value |-> Null, all |-> "none",
   allValue |-> NoResults]

Resolved(v) == [Nothing EXCEPT !.settled = "resolved", !.value = v]
Rejected(msg) == [Nothing EXCEPT !.settled = "rejected", !.message = msg]

(* ----------------------------- auto refresh ---------------------------- *)
\* The timer of one page: `interval` once setInterval has registered the
\* callback, `uncaught` once a rejection has left the callback unhandled,
\* `sinceTick` the milliseconds since the interval was registered or fired
\* last, `ages` the milliseconds each acquisition the timer started and
\* that is still in flight has been waiting for the provider.
NoRefresh ==
  [interval |-> FALSE, uncaught |-> FALSE, sinceTick |-> 0, ages |-> EmptyBag]

\* Variant: the period of the timer is the timeout of a request.
REFRESH_INTERVAL_AS_TIMEOUT == TIMEOUT

\* Line 11.
REFRESH_INTERVAL == 300000

\* autoRefreshLocation(), lines 191-195: register the callback; nothing in
\* the file clears the interval.
autoRefreshLocation(r) == [r EXCEPT !.interval = TRUE, !.sinceTick = 0]

\* The interval fires and its callback calls getCurrentLocation (line 192);
\* the call reaches getCurrentPosition (line 52); the provider answers the
\* request that has been waiting for a milliseconds.
Fired(o, r) == IF o = "timer" THEN [r EXCEPT !.sinceTick = 0] ELSE r
Requested(o, r) == IF o = "timer" THEN [r EXCEPT !.ages = BagAdd(@, 0)] ELSE r
Answered(o, r, a) ==
  IF o = "timer" THEN [r EXCEPT !.ages = BagRemove(@, a)] ELSE r

\* Variant: the handler stops the schedule after a failure.
autoRefreshCatchStops(r) == [r EXCEPT !.interval = FALSE]

\* The handler of line 193, `.catch(err => console.warn(...))`: the
\* rejection is logged and ends there.
autoRefreshCatch(r) == r

\* The promise of a call by origin o is rejected: the timer callback has
\* attached its handler, what a page script does is its own business.
RejectionOf(o, r) == IF o = "timer" THEN autoRefreshCatch(r) ELSE r

(* ---------------------------- ProgressSteps --------------------------- *)
\* ProgressSteps of src/unnamed/part_000, lines 374-461.
\*   overlay      whether this.overlay holds an element (else it is null)
\*   opacity      the opacity of that element: 1 as created, 0 once hide()
\*                has started the fade-out
\*   steps        the length of this.steps
\*   currentStep  this.currentStep
\*   loops        the runs of start() suspended in delay(), each with the
\*                index i of its loop
\*   fades        the 300 ms timers of hide() that have not fired yet
\*   thrown       whether a run of start() has ended in a TypeError
\*   last         the method or timer callback that ran last
NoProgress ==
  [overlay |-> FALSE, opacity |-> 1, steps |-> 0, currentStep |-> 0,
   loops |-> EmptyBag, fades |-> 0, thrown |-> FALSE, last |-> "none"]

\* Timers of ProgressSteps that have not fired.
ProgressTimers == BagCardinality(progress.loops) + progress.fades

\* goToStep(index), lines 423-443: the index is assigned, then the overlay
\* is dereferenced (line 428), which throws when it is null.
goToStep(p, index) ==
  IF p.overlay
    THEN [p EXCEPT !.currentStep = index]
    ELSE [p EXCEPT !.currentStep = index, !.thrown = TRUE]

\* start(), lines 414-421, from the test of the loop at index i up to the
\* next delay or the end of the run.
start(p, i) ==
  IF i >= p.steps THEN p
  ELSE IF ~p.overlay THEN goToStep(p, i)
  ELSE IF i < p.steps - 1
    THEN [goToStep(p, i) EXCEPT !.loops = BagAdd(@, i)]
    ELSE goToStep(p, i)

\* show(steps), lines 379-402, with the run of start() up to its first
\* delay; n is steps.length.
show(n) ==
  /\ IF progress.overlay
       THEN progress' = [progress EXCEPT !.last = "show"]
       ELSE /\ ProgressTimers < MaxTasks
            /\ progress' = start([progress EXCEPT !.overlay = TRUE,
                                                  !.opacity = 1,
                                                  !.steps = n,
                                                  !.currentStep = 0,
                                                  !.last = "show"], 0)
  /\ UNCHANGED <<phase, supported, now, location, storage, pending, geo,
                 weatherData, wx, result, refresh, prompt>>

\* hide(), lines 449-460, up to setTimeout.
hide ==
  /\ IF progress.overlay
       THEN /\ ProgressTimers < MaxTasks
            /\ progress' = [progress EXCEPT !.opacity = 0, !.fades = @ + 1,
                                            !.last = "hide"]
       ELSE progress' = [progress EXCEPT !.last = "hide"]
  /\ UNCHANGED <<phase, supported, now, location, storage, pending, geo,
                 weatherData, wx, result, refresh, prompt>>

\* The callback of hide()'s timer, lines 452-458.
FadeElapsed ==
  /\ progress.fades > 0
  /\ progress' = [progress EXCEPT !.fades = @ - 1, !.overlay = FALSE,
                                  !.last = "fade"]
  /\ UNCHANGED <<phase, supported, now, location, storage, pending, geo,
                 weatherData, wx, result, refresh, prompt>>

\* The delay of a run of start() at index i is over (line 418): the loop
\* goes on with i + 1.
DelayElapsed(i) ==
  /\ BagIn(i, progress.loops)
  /\ progress' = start([progress EXCEPT !.loops = BagRemove(@, i),
                                        !.last = "step"], i + 1)
  /\ UNCHANGED <<phase, supported, now, location, storage, pending, geo,
                 weatherData, wx, result, refresh, prompt>>

(* ------------------------------ showPrompt ----------------------------- *)
\* One call of showPrompt(options), src/js/locationService.js lines 555-648.
\* A text is the sequence of its characters.
\*   dialog    "none" before the call, "shown" once the overlay is in the
\*             document, "fading" once cleanup() has run, "removed" once a
\*             timer of cleanup() has removed it
\*   required  options.required
\*   input     input.value
\*   border    the border colour the handlers gave the input
\*   resolved, isNull, value   whether the promise is resolved, and with
\*             null or with which text
\*   calls     the calls of resolve()
\*   timers    the 200 ms timers of cleanup() that have not fired yet
NoPrompt ==
  [dialog |-> "none", required |-> TRUE, input |-> <<>>, border |-> "none",
   resolved |-> FALSE, isNull |-> FALSE, value |-> <<>>, calls |-> 0,
   timers |-> 0]

\* String.prototype.trim() with the space as the only white space.
RECURSIVE TrimStart(_)
TrimStart(text) ==
  IF text # <<>> /\ Head(text) = " " THEN TrimStart(Tail(text)) ELSE text

RECURSIVE TrimEnd(_)
TrimEnd(text) ==
  IF text # <<>> /\ text[Len(text)] = " "
    THEN TrimEnd(SubSeq(text, 1, Len(text) - 1))
    ELSE text

trim(text) == TrimEnd(TrimStart(text))

\* cleanup(), lines 603-606.
cleanup(p) == [p EXCEPT !.dialog = "fading", !.timers = @ + 1]

\* Variant: a later call of resolve replaces the value.
resolveLast(p, null, text) ==
  [p EXCEPT !.resolved = TRUE, !.isNull = null, !.value = text,
            !.calls = @ + 1]

\* resolve of the promise of line 556: the first call settles it, a later
\* call has no effect.
resolve(p, null, text) ==
  IF p.resolved
    THEN [p EXCEPT !.calls = @ + 1]
    ELSE [p EXCEPT !.resolved = TRUE, !.isNull = null, !.value = text,
                   !.calls = @ + 1]

\* The dialog is in the document and takes events.
InDocument == prompt.dialog \in {"shown", "fading"}

\* showPrompt(options), lines 555-601, up to the return of the promise.
showPrompt(required) ==
  /\ prompt.dialog = "none"
  /\ prompt' = [prompt EXCEPT !.dialog = "shown", !.required = required]
  /\ UNCHANGED <<phase, supported, now, location, storage, pending, geo,
                 weatherData, wx, result, refresh, progress>>

\* The user edits the input; the 'input' listener of lines 594-600 colours
\* the border.
Type(text) ==
  /\ InDocument
  /\ prompt' = [prompt EXCEPT !.input = text,
                              !.border = IF trim(text) # <<>> THEN "green"
                                         ELSE "grey"]
  /\ UNCHANGED <<phase, supported, now, location, storage, pending, geo,
                 weatherData, wx, result, refresh, progress>>

\* handleConfirm, lines 608-617: the confirm button (line 624) and the
\* Enter key (lines 627-631).
handleConfirm ==
  /\ InDocument
  /\ LET value == trim(prompt.input)
     IN  IF prompt.required /\ value = <<>>
           THEN prompt' = [prompt EXCEPT !.border = "red"]
           ELSE /\ prompt.timers < MaxTasks
                /\ prompt' = resolve(cleanup(prompt), value = <<>>, value)
  /\ UNCHANGED <<phase, supported, now, location, storage, pending, geo,
                 weatherData, wx, result, refresh, progress>>

\* The ways to dismiss the dialog: the cancel button (lines 619-622), the
\* Escape key (lines 634-639), a click on the backdrop (lines 641-646).
Dismissals == {"cancel", "escape", "backdrop"}

Dismiss(how) ==
  /\ InDocument
  /\ how \in Dismissals
  /\ prompt.timers < MaxTasks
  /\ prompt' = resolve(cleanup(prompt), TRUE, <<>>)
  /\ UNCHANGED <<phase, supported, now, location, storage, pending, geo,
                 weatherData, wx, result, refresh, progress>>

\* A timer of cleanup() fires: overlay.remove(), line 605.
RemoveElapsed ==
  /\ prompt.timers > 0
  /\ prompt' = [prompt EXCEPT !.dialog = "removed", !.timers = @ - 1]
  /\ UNCHANGED <<phase, supported, now, location, storage, pending, geo,
                 weatherData, wx, result, refresh, progress>>

(* -------------------------------- Init --------------------------------- *)
Init ==
  /\ phase = "constructed"
  /\ supported \in BOOLEAN
  /\ now = 0
  /\ location = DefaultLocation
  /\ storage = EmptyStorage
  /\ pending = [o \in Origins |-> 0]
  /\ geo = EmptyBag
  /\ weatherData = DefaultWeather
  /\ wx = EmptyBag
  /\ result = Nothing
  /\ refresh = NoRefresh
  /\ progress = NoProgress
  /\ prompt = NoPrompt

(* ------------------------------ page life ------------------------------ *)
\* init(), lines 35-39: restore, then start the interval timer.
init ==
  /\ phase = "constructed"
  /\ phase' = "ready"
  /\ location' = restoreLocationFromStorage(storage, location)
  /\ refresh' = autoRefreshLocation(refresh)
  /\ result' = Nothing
  /\ UNCHANGED <<progress, prompt>>
  /\ UNCHANGED <<supported, now, storage, pending, geo, weatherData, wx>>

\* The page is torn down and loaded again: tasks in flight are abandoned,
\* the script is evaluated anew (lines 7-29), localStorage survives.
Reload ==
  /\ phase = "ready"
  /\ phase' = "constructed"
  /\ location' = DefaultLocation
  /\ weatherData' = DefaultWeather
  /\ pending' = [o \in Origins |-> 0]
  /\ geo' = EmptyBag
  /\ wx' = EmptyBag
  /\ result' = Nothing
  /\ refresh' = NoRefresh
  /\ progress' = NoProgress
  /\ prompt' = NoPrompt
  /\ UNCHANGED <<supported, now, storage>>

AdvanceClock ==
  /\ now < MaxClock
  /\ now' = now + 1
  /\ result' = Nothing
  /\ UNCHANGED <<progress, prompt>>
  /\ UNCHANGED <<phase, supported, location, storage, pending, geo,
                 weatherData, wx, refresh>>

(* --------------------------- getCurrentLocation ------------------------ *)
\* Requests in flight: getCurrentPosition, geocoding and weather together.
\* A page script or the timer starts a new one only below MaxTasks; a
\* continuation that replaces its request by the next one is never held back.
InFlight ==
  pending["timer"] + pending["caller"] + BagCardinality(geo)
    + BagCardinality(wx)

\* The waiting times among which the provider answers a request of origin o.
AgesOf(o) == IF o = "timer" THEN BagToSet(refresh.ages) ELSE {0}

\* Lines 45-52 and 81-86: the call up to getCurrentPosition.  The timer
\* callback (lines 192-194) and a page script are the two callers.
getCurrentLocation(o) ==
  /\ phase = "ready"
  /\ o = "timer" => refresh.interval
  /\ IF ~supported
       THEN /\ result' = Rejected("Geolocation not supported")
            /\ refresh' = RejectionOf(o, Fired(o, refresh))
            /\ UNCHANGED pending
       ELSE /\ InFlight < MaxTasks
            /\ pending' = [pending EXCEPT ![o] = @ + 1]
            /\ result' = Nothing
            /\ refresh' = Requested(o, Fired(o, refresh))
  /\ UNCHANGED <<progress, prompt>>
  /\ UNCHANGED <<phase, supported, now, location, storage, geo,
                 weatherData, wx>>

\* The success callback, lines 53-75, with the synchronous head of
\* reverseGeocode (lines 93-101) that it calls.
PositionSuccess(o, fix) ==
  /\ phase = "ready"
  /\ pending[o] > 0
  /\ pending' = [pending EXCEPT ![o] = @ - 1]
  /\ IF AccuracyRejected(fix.accuracy)
       THEN /\ result' = Rejected(AccuracyMessage(fix.accuracy))
            /\ \E a \in AgesOf(o) :
                 refresh' = RejectionOf(o, Answered(o, refresh, a))
            /\ UNCHANGED <<location, storage, geo>>
       ELSE LET loc == CommitFix(location, fix, now)
            IN  /\ location' = loc
                /\ storage' = saveLocationToStorage(storage, loc)
                /\ geo' = IF HasCoordinates(loc)
                            THEN BagAdd(geo, GeoTask("fetch", loc))
                            ELSE geo
                /\ result' = Resolved(Null)
                /\ \E a \in AgesOf(o) : refresh' = Answered(o, refresh, a)
  /\ UNCHANGED <<progress, prompt>>
  /\ UNCHANGED <<phase, supported, now, weatherData, wx>>

\* Variant: the error callback also resets the record.
PositionErrorResets(o, code) ==
  /\ phase = "ready"
  /\ pending[o] > 0
  /\ pending' = [pending EXCEPT ![o] = @ - 1]
  /\ result' = Rejected(getGeolocationsErrorMessage(code))
  /\ \E a \in AgesOf(o) : refresh' = RejectionOf(o, Answered(o, refresh, a))
  /\ location' = DefaultLocation
  /\ UNCHANGED <<progress, prompt>>
  /\ UNCHANGED <<phase, supported, now, storage, geo, weatherData, wx>>

\* Variant: the error callback asks the provider again.
PositionErrorRetries(o, code) ==
  /\ phase = "ready"
  /\ pending[o] > 0
  /\ result' = Nothing
  /\ \E a \in AgesOf(o) : refresh' = Requested(o, Answered(o, refresh, a))
  /\ UNCHANGED <<progress, prompt>>
  /\ UNCHANGED <<phase, supported, now, location, storage, pending, geo,
                 weatherData, wx>>

\* The error callback, lines 76-80.
PositionError(o, code) ==
  /\ phase = "ready"
  /\ pending[o] > 0
  /\ pending' = [pending EXCEPT ![o] = @ - 1]
  /\ result' = Rejected(getGeolocationsErrorMessage(code))
  /\ \E a \in AgesOf(o) : refresh' = RejectionOf(o, Answered(o, refresh, a))
  /\ UNCHANGED <<progress, prompt>>
  /\ UNCHANGED <<phase, supported, now, location, storage, geo,
                 weatherData, wx>>

(* ----------------------------- reverseGeocode -------------------------- *)
\* Variant: the catch block throws the error on.
reverseGeocodeRethrow(loc) ==
  [location |-> [loc EXCEPT !.locationName = Some(FallbackName(loc))],
   result |-> Rejected("Geo API failed")]

\* The catch block, lines 125-128: the name falls back to the coordinates
\* the record holds now; the error is swallowed.
reverseGeocodeCatch(loc) ==
  [location |-> [loc EXCEPT !.locationName = Some(FallbackName(loc))],
   result |-> Resolved(Null)]

\* Variant: an empty name is not assigned.
reverseGeocodeApplyNonEmpty(loc, data) ==
  IF data.kind = "array" /\ Len(data.list) > 0
       /\ PlaceName(data.list[1]) # ""
    THEN [loc EXCEPT !.locationName = Some(PlaceName(data.list[1]))]
    ELSE loc

\* Lines 105-121 once the body is parsed: name the place from the first
\* candidate when there is one.
reverseGeocodeApply(loc, data) ==
  IF data.kind = "array" /\ Len(data.list) > 0
    THEN [loc EXCEPT !.locationName = Some(PlaceName(data.list[1]))]
    ELSE loc

\* Variant: the fallback is computed from the coordinates of the request.
GeoFetchSettledOwnCoordinates(t, outcome) ==
  /\ phase = "ready"
  /\ BagIn(t, geo) /\ t.pc = "fetch"
  /\ IF outcome = "ok"
       THEN /\ geo' = BagAdd(BagRemove(geo, t), [t EXCEPT !.pc = "json"])
            /\ result' = Nothing
            /\ UNCHANGED location
       ELSE LET c == reverseGeocodeCatch(
                       [location EXCEPT !.latitude = Some(t.latitude),
                                        !.longitude = Some(t.longitude)])
            IN  /\ geo' = BagRemove(geo, t)
                /\ location' = [location EXCEPT
                                  !.locationName = c.location.locationName]
                /\ result' = c.result
  /\ UNCHANGED <<progress, prompt>>
  /\ UNCHANGED <<phase, supported, now, storage, pending, weatherData, wx,
                 refresh>>

\* `await fetch(geoUrl)` settles, lines 101-102.
GeoFetchSettled(t, outcome) ==
  /\ phase = "ready"
  /\ BagIn(t, geo) /\ t.pc = "fetch"
  /\ IF outcome = "ok"
       THEN /\ geo' = BagAdd(BagRemove(geo, t), [t EXCEPT !.pc = "json"])
            /\ result' = Nothing
            /\ UNCHANGED location
       ELSE LET c == reverseGeocodeCatch(location)
            IN  /\ geo' = BagRemove(geo, t)
                /\ location' = c.location
                /\ result' = c.result
  /\ UNCHANGED <<progress, prompt>>
  /\ UNCHANGED <<phase, supported, now, storage, pending, weatherData, wx,
                 refresh>>

\* Variant: a response for coordinates the record no longer holds is
\* dropped.
GeoJsonSettledIfCurrent(t, data) ==
  /\ phase = "ready"
  /\ BagIn(t, geo) /\ t.pc = "json"
  /\ geo' = BagRemove(geo, t)
  /\ IF location.latitude # Some(t.latitude)
       THEN /\ result' = Resolved(Null)
            /\ UNCHANGED <<location, storage>>
     ELSE IF data.kind = "invalid"
       THEN LET c == reverseGeocodeCatch(location)
            IN  /\ location' = c.location
                /\ result' = c.result
                /\ UNCHANGED storage
       ELSE LET loc == reverseGeocodeApply(location, data)
            IN  /\ location' = loc
                /\ storage' = saveLocationToStorage(storage, loc)
                /\ result' = Resolved(Null)
  /\ UNCHANGED <<progress, prompt>>
  /\ UNCHANGED <<phase, supported, now, pending, weatherData, wx, refresh>>

\* `await response.json()` settles, lines 104-128.
GeoJsonSettled(t, data) ==
  /\ phase = "ready"
  /\ BagIn(t, geo) /\ t.pc = "json"
  /\ geo' = BagRemove(geo, t)
  /\ IF data.kind = "invalid"
       THEN LET c == reverseGeocodeCatch(location)
            IN  /\ location' = c.location
                /\ result' = c.result
                /\ UNCHANGED storage
       ELSE LET loc == reverseGeocodeApply(location, data)
            IN  /\ location' = loc
                /\ storage' = saveLocationToStorage(storage, loc)
                /\ result' = Resolved(Null)
  /\ UNCHANGED <<progress, prompt>>
  /\ UNCHANGED <<phase, supported, now, pending, weatherData, wx, refresh>>

(* ------------------------------- weather ------------------------------- *)
Kinds == {"current", "forecast"}

\* The provider's JSON answer to a request of a kind for the coordinates of
\* the URL (lines 139, 163).
Payload(kind, lat, lon) ==
  [kind |-> kind, latitude |-> lat, longitude |-> lon]

\* A fetch suspended at an await: its kind, where it stands, the coordinates
\* of its URL, whether getAllWeatherData awaits it and, for the forecast
\* fetch of a getAllWeatherData, the result `current` holds.
WxTask(kind, loc, all, cur) ==
  [kind |-> kind, pc |-> "fetch", latitude |-> Val(loc.latitude),
   longitude |-> Val(loc.longitude), all |-> all, cur |-> cur]

\* Variant: the stamp is the clock reading at which the page was first
\* loaded.
StoreWeatherStampAtLoad(w, kind, payload, t) ==
  IF kind = "current"
    THEN [w EXCEPT !.current = Some(payload), !.lastUpdate = NewDate(0)]
    ELSE [w EXCEPT !.forecast = Some(payload), !.lastUpdate = NewDate(0)]

\* Variant: the payload is stored without a new stamp.
StoreWeatherNoStamp(w, kind, payload, t) ==
  IF kind = "current"
    THEN [w EXCEPT !.current = Some(payload)]
    ELSE [w EXCEPT !.forecast = Some(payload)]

\* Lines 145-147 and 169-171: store the payload in its own field and stamp.
StoreWeather(w, kind, payload, t) ==
  IF kind = "current"
    THEN [w EXCEPT !.current = Some(payload), !.lastUpdate = NewDate(t)]
    ELSE [w EXCEPT !.forecast = Some(payload), !.lastUpdate = NewDate(t)]

\* The catch blocks, lines 149-152 and 173-176: log and return null.
fetchCatch == Resolved(Null)

\* fetchWeatherData() / fetchForecastData() called on their own: lines
\* 134-142 and 158-166 up to the await.
fetch(kind) ==
  /\ phase = "ready"
  /\ IF HasCoordinates(location)
       THEN /\ InFlight < MaxTasks
            /\ wx' = BagAdd(wx, WxTask(kind, location, FALSE, Null))
            /\ result' = Nothing
       ELSE /\ result' = Resolved(Null)
            /\ UNCHANGED wx
  /\ UNCHANGED <<progress, prompt>>
  /\ UNCHANGED <<phase, supported, now, location, storage, pending, geo,
                 weatherData, refresh>>

\* Variant: both requests are started at once.
getAllWeatherDataConcurrent ==
  /\ phase = "ready"
  /\ IF HasCoordinates(location)
       THEN /\ InFlight + 1 < MaxTasks
            /\ wx' = BagAdd(BagAdd(wx, WxTask("current", location, TRUE, Null)),
                            WxTask("forecast", location, TRUE, Null))
            /\ result' = Nothing
       ELSE /\ result' = [Resolved(Null) EXCEPT !.all = "resolved"]
            /\ UNCHANGED wx
  /\ UNCHANGED <<progress, prompt>>
  /\ UNCHANGED <<phase, supported, now, location, storage, pending, geo,
                 weatherData, refresh>>

\* getAllWeatherData(), lines 182-186, up to its first suspension.  Without
\* coordinates both fetches return null and the call resolves at once.
getAllWeatherData ==
  /\ phase = "ready"
  /\ IF HasCoordinates(location)
       THEN /\ InFlight < MaxTasks
            /\ wx' = BagAdd(wx, WxTask("current", location, TRUE, Null))
            /\ result' = Nothing
       ELSE /\ result' = [Resolved(Null) EXCEPT !.all = "resolved"]
            /\ UNCHANGED wx
  /\ UNCHANGED <<progress, prompt>>
  /\ UNCHANGED <<phase, supported, now, location, storage, pending, geo,
                 weatherData, refresh>>

\* The fetch of task t settles as r; rest is the bag without t.  A caller
\* that awaits it in getAllWeatherData goes on: after the current
\* conditions, to the head of fetchForecastData (lines 158-166); after the
\* forecast, to `return { current, forecast }`.
Returned(t, r, rest) ==
  IF ~t.all \/ r.settled # "resolved"
    THEN /\ wx' = rest
         /\ result' = [r EXCEPT !.all = IF t.all THEN r.settled ELSE "none"]
    ELSE IF t.kind = "forecast"
    THEN /\ wx' = rest
         /\ result' = [r EXCEPT !.all = "resolved",
                         !.allValue = [current |-> t.cur,
                                       forecast |-> r.value]]
    ELSE IF HasCoordinates(location)
    THEN /\ wx' = BagAdd(rest, WxTask("forecast", location, TRUE, r.value))
         /\ result' = r
    ELSE /\ wx' = rest
         /\ result' = [r EXCEPT !.all = "resolved",
                         !.allValue = [current |-> r.value,
                                       forecast |-> Null]]

\* Variant: a failed request empties the field of its kind.
WxFetchSettledClears(t, outcome) ==
  /\ phase = "ready"
  /\ BagIn(t, wx) /\ t.pc = "fetch"
  /\ IF outcome = "ok"
       THEN /\ wx' = BagAdd(BagRemove(wx, t), [t EXCEPT !.pc = "json"])
            /\ result' = Nothing
            /\ UNCHANGED weatherData
       ELSE /\ Returned(t, fetchCatch, BagRemove(wx, t))
            /\ weatherData' = [weatherData EXCEPT ![t.kind] = Null]
  /\ UNCHANGED <<progress, prompt>>
  /\ UNCHANGED <<phase, supported, now, location, storage, pending, geo,
                 refresh>>

\* `await fetch(url)` settles, lines 142-143 and 166-167.
WxFetchSettled(t, outcome) ==
  /\ phase = "ready"
  /\ BagIn(t, wx) /\ t.pc = "fetch"
  /\ IF outcome = "ok"
       THEN /\ wx' = BagAdd(BagRemove(wx, t), [t EXCEPT !.pc = "json"])
            /\ result' = Nothing
       ELSE Returned(t, fetchCatch, BagRemove(wx, t))
  /\ UNCHANGED <<progress, prompt>>
  /\ UNCHANGED <<phase, supported, now, location, storage, pending, geo,
                 weatherData, refresh>>

\* `await response.json()` settles, lines 145-152 and 169-176; valid tells
\* whether the body parsed.
WxJsonSettled(t, valid) ==
  /\ phase = "ready"
  /\ BagIn(t, wx) /\ t.pc = "json"
  /\ IF valid
       THEN LET payload == Payload(t.kind, t.latitude, t.longitude)
                w == StoreWeather(weatherData, t.kind, payload, now)
            IN  /\ weatherData' = w
                /\ storage' = saveWeatherToStorage(storage, w)
                /\ Returned(t, Resolved(Some(payload)), BagRemove(wx, t))
       ELSE /\ Returned(t, fetchCatch, BagRemove(wx, t))
            /\ UNCHANGED <<weatherData, storage>>
  /\ UNCHANGED <<progress, prompt>>
  /\ UNCHANGED <<phase, supported, now, location, pending, geo, refresh>>

(* ------------------------------- queries ------------------------------- *)
\* A synchronous method returned v to the page script that called it.
Returns(v) == [Nothing EXCEPT !.settled = "returned", !.value = Some(v)]

\* The default of the parameter of isLocationValid (line 265) and another
\* limit a page script may pass.
MaxAges == {5, 1}

\* isLocationValid(maxAgeMins), lines 265-277, at clock reading t.  The
\* quotient ageMs / 60000 is compared in milliseconds; a Date and the text
\* of a Date both pass `new Date(...)` and are truthy.
isLocationValid(loc, t, maxAgeMins) ==
  IF ~HasCoordinates(loc) THEN FALSE
  ELSE IF loc.lastUpdate.type # "null"
    THEN t - loc.lastUpdate.ms < maxAgeMins * 60000
    ELSE TRUE

\* A page script asks whether the record is fresh.
ValidityQuery(maxAgeMins) ==
  /\ phase = "ready"
  /\ result' = Returns(isLocationValid(location, now, maxAgeMins))
  /\ UNCHANGED <<progress, prompt>>
  /\ UNCHANGED <<phase, supported, now, location, storage, pending, geo,
                 weatherData, wx, refresh>>

\* A synchronous method returned the string text.
ReturnsText(text) == [Nothing EXCEPT !.settled = "returned", !.message = text]

\* toFixed(6) of a coordinate, which carries 5 decimals.
CoordToFixed6(n) == CoordToFixed(n, 5) \o "0"

\* getDisplayLocation(), lines 282-290.
getDisplayLocation(loc) ==
  IF loc.locationName # Null /\ Val(loc.locationName) # ""
    THEN Val(loc.locationName)
  ELSE IF HasCoordinates(loc)
    THEN CoordToFixed6(Val(loc.latitude)) \o ", "
           \o CoordToFixed6(Val(loc.longitude))
  ELSE "Location not detected"

\* getCoordinatesString(), lines 295-300.
getCoordinatesString(loc) ==
  IF HasCoordinates(loc)
    THEN "Lat: " \o CoordToFixed6(Val(loc.latitude)) \o ", Lon: "
           \o CoordToFixed6(Val(loc.longitude))
    ELSE "Lat: --, Lon: --"

\* getAccuracyString(), lines 305-310.
getAccuracyString(loc) ==
  IF loc.accuracy # Null
    THEN "Accuracy: " \o AccToFixed(Val(loc.accuracy), 0) \o " meters"
    ELSE "Accuracy: --"

Getters == {"getDisplayLocation", "getCoordinatesString", "getAccuracyString"}

\* A page script calls one of the display getters.
DisplayQuery(getter) ==
  /\ phase = "ready"
  /\ result' = ReturnsText(CASE getter = "getDisplayLocation" ->
                                  getDisplayLocation(location)
                             [] getter = "getCoordinatesString" ->
                                  getCoordinatesString(location)
                             [] getter = "getAccuracyString" ->
                                  getAccuracyString(location))
  /\ UNCHANGED <<progress, prompt>>
  /\ UNCHANGED <<phase, supported, now, location, storage, pending, geo,
                 weatherData, wx, refresh>>

\* A page script calls restoreLocationFromStorage() (lines 214-221).
RestoreLocation ==
  /\ phase = "ready"
  /\ location' = restoreLocationFromStorage(storage, location)
  /\ result' = Nothing
  /\ UNCHANGED <<progress, prompt>>
  /\ UNCHANGED <<phase, supported, now, storage, pending, geo, weatherData,
                 wx, refresh>>

\* A page script calls restoreWeatherFromStorage() (lines 237-244).
RestoreWeather ==
  /\ phase = "ready"
  /\ weatherData' = restoreWeatherFromStorage(storage, weatherData)
  /\ result' = Nothing
  /\ UNCHANGED <<progress, prompt>>
  /\ UNCHANGED <<phase, supported, now, location, storage, pending, geo,
                 wx, refresh>>

(* -------------------------------- time --------------------------------- *)
\* How far the clock is followed: some periods of the timer.
Horizon == (MaxClock + 1) * REFRESH_INTERVAL

\* The waiting times of a bag, d milliseconds later.
Later(ages, d) == [b \in {a + d : a \in BagToSet(ages)} |-> ages[b - d]]

\* d milliseconds pass.  The interval fires when its period is over (line
\* 194) and the provider answers a request within the timeout it was given
\* (line 84), so time does not pass beyond either.
Elapse(d) ==
  /\ now + d <= Horizon
  /\ refresh.interval => refresh.sinceTick + d <= REFRESH_INTERVAL
  /\ \A a \in BagToSet(refresh.ages) : a + d <= TIMEOUT
  /\ now' = now + d
  /\ refresh' = [refresh EXCEPT
                   !.sinceTick = IF refresh.interval THEN @ + d ELSE @,
                   !.ages = Later(@, d)]
  /\ result' = Nothing
  /\ UNCHANGED <<progress, prompt>>
  /\ UNCHANGED <<phase, supported, location, storage, pending, geo,
                 weatherData, wx>>

\* The interval fires: a period after it was registered or fired last.
Tick ==
  /\ refresh.sinceTick = REFRESH_INTERVAL
  /\ getCurrentLocation("timer")

(* -------------------------------- Next --------------------------------- *)
Page ==
  \/ init
  \/ Reload

\* The geolocation provider delivering fixes of `fixes`, errors of `codes`.
Acquisition(fixes, codes) ==
  \/ \E o \in Origins : getCurrentLocation(o)
  \/ \E o \in Origins, fix \in fixes : PositionSuccess(o, fix)
  \/ \E o \in Origins, code \in codes : PositionError(o, code)

\* The reverse-geocoding service answering with `answers`.
Naming(answers) ==
  \/ \E t \in BagToSet(geo), outcome \in FetchOutcomes : GeoFetchSettled(t, outcome)
  \/ \E t \in BagToSet(geo), data \in answers : GeoJsonSettled(t, data)

\* The page scripts calling the weather methods, and the weather service.
Weather ==
  \/ \E kind \in Kinds : fetch(kind)
  \/ getAllWeatherData
  \/ \E t \in BagToSet(wx), outcome \in FetchOutcomes : WxFetchSettled(t, outcome)
  \/ \E t \in BagToSet(wx), valid \in BOOLEAN : WxJsonSettled(t, valid)

\* The service on a page that never calls the weather methods, under every
\* fix, every error and every answer of the reverse-geocoding service.
Next ==
  Page \/ AdvanceClock \/ Acquisition(Fixes, ErrorCodes) \/ Naming(GeoData)

Spec == Init /\ [][Next]_vars

\* The service on a page that calls the weather methods, in a time span
\* too short for the clock to advance.  The provider
\* delivers an accepted fix, an accepted fix on the equator and a rejected
\* one, and one kind of error; the reverse-geocoding service answers with
\* unparsable text, an empty list or the candidate of Kuala Lumpur.
FixesCore == {f \in Fixes : f.accuracy \in {120, 500, 1200}}

GeoDataCore ==
  {d \in GeoData :
     \/ d.kind = "invalid"
     \/ d.kind = "array" /\ d.list = <<>>
     \/ d.kind = "array" /\ d.list # <<>>
          /\ d.list[1] = [name |-> Some("Kuala Lumpur"), state |-> Some(""),
                          country |-> Some("MY")]}

NextWeather ==
  Page \/ Acquisition(FixesCore, {PERMISSION_DENIED}) \/ Naming(GeoDataCore)
    \/ Weather

SpecWeather == Init /\ [][NextWeather]_vars

\* What localStorage can hold under 'userLocation' when a page loads: the
\* records an earlier page wrote after an accepted fix (stamped at clock
\* reading 0, named or not), and records of another origin of the same
\* site: one of accuracy 120.0 m, one without a stamp, one without
\* coordinates.
StoredLocations ==
  LET accepted == {f \in Fixes : ~AccuracyRejected(f.accuracy)}
      over == CHOOSE f \in Fixes : f.accuracy = 1200
      good == CHOOSE f \in Fixes : f.accuracy = 120
      own == {LocationJSON(CommitFix(DefaultLocation, f, 0)) : f \in accepted}
      fix == LocationJSON(CommitFix(DefaultLocation, good, 0))
  IN  own
        \cup {[fix EXCEPT !.locationName = Some("Kuala Lumpur, MY")],
              LocationJSON(CommitFix(DefaultLocation, over, 0)),
              [fix EXCEPT !.lastUpdate = NoDate],
              [DefaultLocation EXCEPT !.lastUpdate = DateJSON(NewDate(0))]}

\* What it can hold under 'weatherData'.
StoredWeather ==
  {WeatherJSON(StoreWeather(DefaultWeather, "current",
                            Payload("current", 313904, 10168686), 0))}

\* Clock readings at page load, in milliseconds after the stamp of the
\* stored records: around one and five minutes.
LoadTimes == {0, 59000, 60000, 299000, 300000, 301000}

InitStored ==
  /\ phase = "constructed"
  /\ supported \in BOOLEAN
  /\ now \in LoadTimes
  /\ location = DefaultLocation
  /\ storage \in [userLocation : {Null} \cup {Some(r) : r \in StoredLocations},
                  weatherData : {Null} \cup {Some(w) : w \in StoredWeather}]
  /\ pending = [o \in Origins |-> 0]
  /\ geo = EmptyBag
  /\ weatherData = DefaultWeather
  /\ wx = EmptyBag
  /\ result = Nothing
  /\ refresh = NoRefresh
  /\ progress = NoProgress
  /\ prompt = NoPrompt

\* A page that loads over such a store and whose scripts only ask and
\* restore.
NextStored ==
  \/ Page
  \/ \E m \in MaxAges : ValidityQuery(m)
  \/ RestoreLocation
  \/ RestoreWeather

SpecStored == InitStored /\ [][NextStored]_vars

\* The provider serving the calls of `origins` only.
AcquisitionBy(origins, fixes, codes) ==
  \/ \E o \in origins : getCurrentLocation(o)
  \/ \E o \in origins, fix \in fixes : PositionSuccess(o, fix)
  \/ \E o \in origins, code \in codes : PositionError(o, code)

\* The service on a page whose scripts never call it: the interval timer is
\* the only caller of getCurrentLocation.
NextTimer ==
  Page \/ AcquisitionBy({"timer"}, FixesCore, ErrorCodes)
    \/ Naming(GeoDataCore)

SpecTimer == Init /\ [][NextTimer]_vars

\* An accepted fix and a rejected one; a failed and a successful answer of
\* the reverse-geocoding service.
FixesPair == {f \in Fixes : f.accuracy \in {120, 1200}}
GeoDataPair == {d \in GeoDataCore : d.kind = "invalid" \/ d.list # <<>>}

\* The service with every kind of operation while the clock advances: page
\* loads, acquisitions, naming and weather.
NextSession ==
  Page \/ AdvanceClock
    \/ AcquisitionBy({"caller"}, FixesPair, {PERMISSION_DENIED})
    \/ Naming(GeoDataPair) \/ Weather

SpecSession == Init /\ [][NextSession]_vars

\* The service with every kind of operation, the display getters included,
\* in a time span too short for the clock to advance.
NextFrame ==
  Page \/ Acquisition(FixesPair, {PERMISSION_DENIED})
    \/ Naming(GeoDataPair) \/ Weather
    \/ \E m \in MaxAges : ValidityQuery(m)
    \/ \E getter \in Getters : DisplayQuery(getter)

SpecFrame == Init /\ [][NextFrame]_vars

\* The service on a page that is loaded once and may call the weather
\* methods, with the timer as the only caller of getCurrentLocation.
NextNotify ==
  \/ init
  \/ AcquisitionBy({"timer"}, FixesPair, {TIMEOUT_CODE})
  \/ Naming(GeoDataPair)
  \/ Weather

\* What the environment of the service carries on with: the page runs
\* init() once loaded (lines 313-318), the interval fires (line 192), the
\* provider answers every request, by the timeout of line 84 at the latest,
\* and the network settles every fetch.  Whether and when a page script
\* calls a weather method is up to the page.
ProviderAnswers ==
  \/ \E fix \in FixesPair : PositionSuccess("timer", fix)
  \/ PositionError("timer", TIMEOUT_CODE)

NetworkSettles ==
  \/ Naming(GeoDataPair)
  \/ \E t \in BagToSet(wx), outcome \in FetchOutcomes : WxFetchSettled(t, outcome)
  \/ \E t \in BagToSet(wx), valid \in BOOLEAN : WxJsonSettled(t, valid)

Fairness ==
  /\ WF_vars(init)
  /\ WF_vars(getCurrentLocation("timer"))
  /\ WF_vars(ProviderAnswers)
  /\ WF_vars(NetworkSettles)

SpecNotify == Init /\ [][NextNotify]_vars /\ Fairness

\* Two accepted fixes in different places, north and south of the equator.
FixesApart == {f \in Fixes : f.accuracy \in {120, 85}}

\* The place the reverse-geocoding service knows at the coordinates of a
\* request (the lat and lon of geoUrl, line 98).
PlaceAt(lat, lon) ==
  IF lat > 0
    THEN [name |-> Some("Kuala Lumpur"), state |-> Some(""),
          country |-> Some("MY")]
    ELSE [name |-> Some("Padang"), state |-> Some("West Sumatra"),
          country |-> Some("ID")]

\* A reverse-geocoding service that fails or answers with the place at the
\* coordinates it was asked for.
NamingAt ==
  \/ \E t \in BagToSet(geo), outcome \in FetchOutcomes : GeoFetchSettled(t, outcome)
  \/ \E t \in BagToSet(geo) :
       GeoJsonSettled(t, [kind |-> "array",
                          list |-> <<PlaceAt(t.latitude, t.longitude)>>])

\* The service on a page that is loaded once, so that no request is
\* abandoned.
NextPlaces ==
  init \/ Acquisition(FixesApart, {POSITION_UNAVAILABLE}) \/ NamingAt

SpecPlaces == Init /\ [][NextPlaces]_vars

\* The same page when its scripts also call the weather methods while the
\* device moves.
NextMoving == NextPlaces \/ Weather

SpecMoving == Init /\ [][NextMoving]_vars

\* The lengths of the step lists the page scripts pass to show().
StepCounts == {1, 2, 3}

\* A page whose scripts show and hide the progress overlay at any moment
\* while its timers run.
NextProgress ==
  \/ \E n \in StepCounts : show(n)
  \/ hide
  \/ FadeElapsed
  \/ \E i \in BagToSet(progress.loops) : DelayElapsed(i)

SpecProgress == Init /\ [][NextProgress]_vars

\* What the user types into the prompt.
Inputs == {<<>>, <<" ", " ">>, <<"k", "l">>, <<" ", "k", " ", "l", " ">>}

\* A page that opens one prompt, with the user typing, confirming and
\* dismissing at any moment until the dialog is removed.
NextPrompt ==
  \/ \E required \in BOOLEAN : showPrompt(required)
  \/ \E text \in Inputs : Type(text)
  \/ handleConfirm
  \/ \E how \in Dismissals : Dismiss(how)
  \/ RemoveElapsed

SpecPrompt == Init /\ [][NextPrompt]_vars

\* Steps of the clock, in milliseconds: 20 s and 280 s, which add up to
\* the timeout of a request and to the period of the timer.
Steps == {20000, 280000}

\* The service in real time on a page whose scripts never call it: the
\* timer fires every REFRESH_INTERVAL and the provider answers within
\* TIMEOUT.
NextTimed ==
  \/ Page
  \/ \E d \in Steps : Elapse(d)
  \/ Tick
  \/ \E fix \in FixesPair : PositionSuccess("timer", fix)
  \/ PositionError("timer", TIMEOUT_CODE)
  \/ Naming(GeoDataPair)

SpecTimed == Init /\ [][NextTimed]_vars

(* ======================================================================= *)
(* Claims                                                                  *)
(* ======================================================================= *)
Stored == Val(storage.userLocation)

\* The fields of a record that a commit writes are those of the fix.
HoldsFix(loc, fix) ==
  /\ loc.latitude = Some(fix.latitude)
  /\ loc.longitude = Some(fix.longitude)
  /\ loc.accuracy = Some(fix.accuracy)
  /\ loc.source = "auto"

\* The shortest decimal rendering of an accuracy, as String(a) gives it:
\* "120" for 120 m, "50.4" for 50.4 m.
AccString(a) == IF a % 10 = 0 THEN AccToFixed(a, 0) ELSE AccToFixed(a, 1)

\* What a delivered fix must lead to, the rejection carrying `carried`.
AccuracyGate(fix, carried) ==
  IF fix.accuracy <= ACCURACY_THRESHOLD
    THEN /\ HoldsFix(location', fix)
         /\ result'.settled = "resolved"
    ELSE /\ location' = location
         /\ storage' = storage
         /\ geo' = geo
         /\ result'.settled = "rejected"
         /\ result'.message =
              "Accuracy too low: " \o carried \o "m (need 50m or better)"

\* C1, as claimed: a delivered fix of accuracy a is committed iff a <= 50 m
\* (50 m itself is accepted); a fix above the threshold leaves the record, the
\* storage and the geocoding requests as they were and the call is rejected
\* with an accuracy error that carries a.
C1_AsClaimed ==
  [][\A o \in Origins, fix \in Fixes :
       PositionSuccess(o, fix) => AccuracyGate(fix, AccString(fix.accuracy))]_vars

\* C1, amended: the same, the accuracy error carrying a rounded to a whole
\* number of metres.
C1_AccuracyGate ==
  [][\A o \in Origins, fix \in Fixes :
       PositionSuccess(o, fix) =>
         AccuracyGate(fix, ToString((fix.accuracy + 5) \div 10))]_vars

\* A fix of 50.4 m has been rejected, as "50m", while the record holds a fix
\* accepted at exactly 50 m.
C1_Witness ==
  /\ result.settled = "rejected"
  /\ result.message = "Accuracy too low: 50m (need 50m or better)"
  /\ location.accuracy = Some(ACCURACY_THRESHOLD)

\* A record written by automatic acquisition passed the accuracy check.
Gated(loc) ==
  /\ loc.source = "auto" =>
       loc.accuracy # Null /\ Val(loc.accuracy) <= ACCURACY_THRESHOLD
  /\ \A f \in Fixes :
       f.accuracy > ACCURACY_THRESHOLD =>
         loc.latitude # Some(f.latitude) /\ loc.accuracy # Some(f.accuracy)

\* C2: in every reachable state a record with source 'auto', in memory or in
\* storage, has a non-null accuracy of at most 50 m, and no field of a
\* rejected fix is visible in either.
C2_GatedEverywhere ==
  /\ Gated(location)
  /\ storage.userLocation # Null => Gated(Stored)

\* A gated record restored from storage after a reload, a weather fetch in
\* flight.
C2_Witness ==
  /\ location.source = "auto"
  /\ location.lastUpdate.type = "string"
  /\ location.accuracy = Some(120)
  /\ wx # EmptyBag

\* C3: when the provider fails, or the capability is absent, the call is
\* rejected with an error and the record in memory and the record in storage
\* are what they were.
C3_FailureLeavesRecord ==
  [][/\ \A o \in Origins, code \in ErrorCodes :
          PositionError(o, code) =>
            /\ result'.settled = "rejected"
            /\ result'.message # ""
            /\ location' = location
            /\ storage' = storage
     /\ \A o \in Origins :
          getCurrentLocation(o) /\ ~supported =>
            /\ result'.settled = "rejected"
            /\ result'.message = "Geolocation not supported"
            /\ location' = location
            /\ storage' = storage]_vars

\* A timeout has been reported while the record holds a fix.
C3_Witness ==
  /\ result.settled = "rejected"
  /\ result.message = getGeolocationsErrorMessage(TIMEOUT_CODE)
  /\ location.source = "auto"
  /\ storage.userLocation # Null

\* C4: when getCurrentLocation resolves, the stored record has the latitude,
\* longitude, accuracy, source and (as its ISO string) lastUpdate of the
\* record in memory.
C4_PersistedBeforeResolve ==
  [][\A o \in Origins, fix \in Fixes :
       PositionSuccess(o, fix) /\ result'.settled = "resolved" =>
         /\ storage'.userLocation # Null
         /\ LET st == Val(storage'.userLocation)
            IN  /\ st.latitude = location'.latitude
                /\ st.longitude = location'.longitude
                /\ st.accuracy = location'.accuracy
                /\ st.source = location'.source
                /\ st.lastUpdate.type = "string"
                /\ st.lastUpdate.ms = location'.lastUpdate.ms
                /\ location'.lastUpdate = NewDate(now)]_vars

\* An acquisition has just resolved at time 1 over an older stored record:
\* its geocoding request is out and storage holds the new fix.
C4_Witness ==
  /\ result.settled = "resolved"
  /\ location.lastUpdate = NewDate(1)
  /\ location.locationName # Null
  /\ BagIn(GeoTask("fetch", location), geo)
  /\ storage.userLocation # Null
  /\ Stored.lastUpdate = [type |-> "string", ms |-> 1]
  /\ Stored.latitude = location.latitude

\* A reverseGeocode call completes in this step.
NamingCompletes ==
  /\ \E t \in BagToSet(geo) :
       \/ \E outcome \in FetchOutcomes : GeoFetchSettled(t, outcome)
       \/ \E data \in GeoData : GeoJsonSettled(t, data)
  /\ result'.settled # "none"

\* C5, as claimed: when a reverseGeocode call has completed, whatever its
\* outcome, and nothing is in flight, the stored locationName equals the
\* locationName in memory.
C5_AsClaimed ==
  [][NamingCompletes /\ InFlight' = 0 =>
       /\ storage'.userLocation # Null
       /\ Val(storage'.userLocation).locationName = location'.locationName]_vars

\* The 4-decimal numeric string of a record's coordinates.
Numeric4(loc) ==
  CoordToFixed(Val(loc.latitude), 4) \o ", "
    \o CoordToFixed(Val(loc.longitude), 4)

\* C6, as claimed: once the reverseGeocode triggered by a commit has
\* completed, locationName is not null; after a transport error, a
\* non-success response or an empty candidate list it is the 4-decimal
\* numeric string of the record's coordinates.
C6_AsClaimed ==
  [][\A t \in BagToSet(geo) :
       /\ \A outcome \in {"transport", "notok"} :
            GeoFetchSettled(t, outcome) =>
              location'.locationName = Some(Numeric4(location'))
       /\ \A data \in GeoData :
            GeoJsonSettled(t, data) =>
              /\ location'.locationName # Null
              /\ data.kind = "array" /\ data.list = <<>> =>
                   location'.locationName = Some(Numeric4(location'))]_vars

\* The messages of the acquisition path.
AcquisitionMessages ==
  {"Geolocation not supported"}
    \cup {getGeolocationsErrorMessage(code) : code \in ErrorCodes}
    \cup {AccuracyMessage(f.accuracy) : f \in Fixes}

\* C7: reverseGeocode, fetchWeatherData, fetchForecastData and
\* getAllWeatherData never reject, whatever their collaborator yields, and
\* resolve when it fails; an acquisition with an accepted fix resolves; a
\* rejection carries a message of the acquisition path.
C7_ErrorsContained ==
  [][/\ \A t \in BagToSet(geo) :
          /\ \A outcome \in FetchOutcomes :
               GeoFetchSettled(t, outcome) =>
                 /\ result'.settled # "rejected"
                 /\ outcome # "ok" => result'.settled = "resolved"
          /\ \A data \in GeoData :
               GeoJsonSettled(t, data) => result'.settled = "resolved"
     /\ \A t \in BagToSet(wx) :
          /\ \A outcome \in FetchOutcomes :
               WxFetchSettled(t, outcome) =>
                 /\ result'.settled # "rejected" /\ result'.all # "rejected"
                 /\ outcome # "ok" =>
                      result'.settled = "resolved" /\ result'.value = Null
          /\ \A valid \in BOOLEAN :
               WxJsonSettled(t, valid) =>
                 /\ result'.settled = "resolved" /\ result'.all # "rejected"
                 /\ ~valid => result'.value = Null
          /\ \A outcome \in FetchOutcomes, valid \in BOOLEAN :
               /\ WxFetchSettled(t, outcome) \/ WxJsonSettled(t, valid)
               /\ t.all /\ t.kind = "forecast" /\ result'.settled # "none"
               => result'.all = "resolved"
     /\ \A kind \in Kinds : fetch(kind) => result'.settled # "rejected"
     /\ getAllWeatherData =>
          result'.settled # "rejected" /\ result'.all # "rejected"
     /\ \A o \in Origins, fix \in Fixes :
          PositionSuccess(o, fix) /\ fix.accuracy <= ACCURACY_THRESHOLD =>
            result'.settled = "resolved"
     /\ result'.settled = "rejected" =>
          result'.message \in AcquisitionMessages]_vars

\* getAllWeatherData has resolved with two nulls for a record that has
\* coordinates (both fetches failed) and whose name is the fallback of a
\* failed reverse geocoding.
C7_Witness ==
  /\ result.all = "resolved"
  /\ result.allValue = NoResults
  /\ HasCoordinates(location)
  /\ location.locationName = Some("3.1390, 101.6869")

Present(s) == s # Null /\ s # Some("")
Text(s) == IF Present(s) THEN Val(s) ELSE ""

\* C8: on a non-empty result with at least one component present the name
\* is city+state when both are present, else city+country when the city is,
\* else state+country when the state is, else the country alone, an absent
\* country being rendered as the empty string.
C8_PreferenceOrder ==
  [][\A t \in BagToSet(geo), c \in Candidates :
       /\ GeoJsonSettled(t, [kind |-> "array", list |-> <<c>>])
       /\ Present(c.name) \/ Present(c.state) \/ Present(c.country)
       => LET name == location'.locationName
          IN  /\ Present(c.name) /\ Present(c.state) =>
                   name = Some(Val(c.name) \o ", " \o Val(c.state))
              /\ Present(c.name) /\ ~Present(c.state) =>
                   name = Some(Val(c.name) \o ", " \o Text(c.country))
              /\ ~Present(c.name) /\ Present(c.state) =>
                   name = Some(Val(c.state) \o ", " \o Text(c.country))
              /\ ~Present(c.name) /\ ~Present(c.state) =>
                   name = c.country
              /\ c = [name |-> Some("Kuala Lumpur"), state |-> Some(""),
                      country |-> Some("MY")] =>
                   name = Some("Kuala Lumpur, MY")]_vars

\* The record has been named city+state and the name is stored.
C8_Witness ==
  /\ location.locationName = Some("Kuala Lumpur, Selangor")
  /\ storage.userLocation # Null
  /\ Stored.locationName = location.locationName
  /\ result.settled = "resolved"

\* A non-empty result none of whose components resolves.
Unresolved(c) == ~Present(c.name) /\ ~Present(c.state) /\ ~Present(c.country)

\* C9, as claimed: when the geocoding call succeeds and no component
\* resolves, locationName after the call equals locationName before it.
C9_AsClaimed ==
  [][\A t \in BagToSet(geo), c \in Candidates :
       GeoJsonSettled(t, [kind |-> "array", list |-> <<c>>]) /\ Unresolved(c)
       => location'.locationName = location.locationName]_vars

\* C9, amended: then reverseGeocode sets locationName to the empty string,
\* whatever it was, and stores it.
C9_EmptyName ==
  [][\A t \in BagToSet(geo), c \in Candidates :
       GeoJsonSettled(t, [kind |-> "array", list |-> <<c>>]) /\ Unresolved(c)
       => /\ location'.locationName = Some("")
          /\ Val(storage'.userLocation).locationName = Some("")]_vars

\* The name is the empty string, in memory and in storage.
C9_Witness ==
  /\ location.locationName = Some("")
  /\ storage.userLocation # Null
  /\ Stored.locationName = Some("")
  /\ result.settled = "resolved"

\* Both coordinates of the record are non-null.
NonNullCoordinates(loc) == loc.latitude # Null /\ loc.longitude # Null

\* C10, as claimed: reverseGeocode, fetchWeatherData and fetchForecastData
\* send their request exactly when both coordinates are non-null, latitude 0
\* and longitude 0 included, and are no-ops returning null otherwise.
C10_AsClaimed ==
  [][/\ \A kind \in Kinds :
          fetch(kind) =>
            IF NonNullCoordinates(location)
              THEN wx' = BagAdd(wx, WxTask(kind, location, FALSE, Null))
              ELSE /\ wx' = wx
                   /\ result' = Resolved(Null)
     /\ \A o \in Origins, fix \in Fixes :
          PositionSuccess(o, fix) /\ fix.accuracy <= ACCURACY_THRESHOLD =>
            IF NonNullCoordinates(location')
              THEN geo' = BagAdd(geo, GeoTask("fetch", location'))
              ELSE geo' = geo]_vars

\* The validity the text gives a record at clock reading t.
ValidAsClaimed(loc, t, maxAgeMins) ==
  IF ~NonNullCoordinates(loc) THEN FALSE
  ELSE IF loc.lastUpdate.type = "null" THEN TRUE
  ELSE t - loc.lastUpdate.ms < maxAgeMins * 60000

\* C11, as claimed: isLocationValid(maxAgeMins) returns false when a
\* coordinate is null, true when both are non-null (the value 0 included)
\* and lastUpdate is null, and otherwise whether the age of the record is
\* strictly below maxAgeMins minutes.
C11_AsClaimed ==
  [][\A m \in MaxAges :
       ValidityQuery(m) =>
         result'.value = Some(ValidAsClaimed(location, now, m))]_vars


\* The guard of the timer's next call: the page is up and the interval is
\* registered.
TickScheduled == phase = "ready" /\ refresh.interval

\* C12: a failure of a timer-initiated acquisition (no geolocation, a
\* provider error, an inaccurate fix) neither stops the schedule nor leaves
\* the timer callback: after it the interval is still registered, so the
\* next tick calls getCurrentLocation again, and so on for as long as the
\* page is up.
C12_ScheduleSurvives ==
  [][/\ getCurrentLocation("timer") /\ ~supported =>
          TickScheduled' /\ ~refresh'.uncaught
     /\ \A fix \in Fixes :
          PositionSuccess("timer", fix) /\ AccuracyRejected(fix.accuracy) =>
            TickScheduled' /\ ~refresh'.uncaught
     /\ \A code \in ErrorCodes :
          PositionError("timer", code) =>
            TickScheduled' /\ ~refresh'.uncaught
     /\ phase = "ready" /\ phase' = "ready" =>
          TickScheduled /\ TickScheduled']_vars

\* A tick has timed out and the schedule is still on.
C12_Witness ==
  /\ result.settled = "rejected"
  /\ result.message = getGeolocationsErrorMessage(TIMEOUT_CODE)
  /\ TickScheduled
  /\ ~refresh.uncaught


\* The other field of the WeatherRecord.
Other(kind) == IF kind = "current" THEN "forecast" ELSE "current"

\* C13: a weather fetch that succeeds stores its payload in its own field
\* of the WeatherRecord, stamps lastUpdate with the clock, persists the
\* record and returns the payload; one that fails (transport error, non-OK
\* status, unparsable body) returns null and leaves the record unchanged in
\* memory and in storage.  A success never touches the other field.
C13_FetchOutcome ==
  [][\A t \in BagToSet(wx) :
       /\ WxJsonSettled(t, TRUE) =>
            LET payload == Payload(t.kind, t.latitude, t.longitude)
            IN  /\ weatherData'[t.kind] = Some(payload)
                /\ weatherData'[Other(t.kind)] = weatherData[Other(t.kind)]
                /\ weatherData'.lastUpdate = NewDate(now)
                /\ storage'.weatherData = Some(WeatherJSON(weatherData'))
                /\ result'.settled = "resolved"
                /\ result'.value = Some(payload)
       /\ \/ WxJsonSettled(t, FALSE)
          \/ WxFetchSettled(t, "transport")
          \/ WxFetchSettled(t, "notok")
          => /\ result'.settled = "resolved"
             /\ result'.value = Null
             /\ weatherData' = weatherData
             /\ storage' = storage]_vars

\* getAllWeatherData has just returned the current conditions and no
\* forecast: the record holds the former, stamped at clock reading 1, and
\* no forecast, in memory and in storage.
C13_Witness ==
  /\ result.all = "resolved"
  /\ result.allValue.current # Null
  /\ result.allValue.forecast = Null
  /\ weatherData.current = result.allValue.current
  /\ weatherData.forecast = Null
  /\ weatherData.lastUpdate = NewDate(1)
  /\ storage.weatherData = Some(WeatherJSON(weatherData))


\* The fetches of a kind in flight that a getAllWeatherData awaits.
Awaited(b, kind) ==
  BagCardinality([t \in {x \in BagToSet(b) : x.all /\ x.kind = kind} |-> b[t]])

\* The fetch of task t comes to its end in this step, whatever the outcome.
Completes(t) ==
  \/ \E valid \in BOOLEAN : WxJsonSettled(t, valid)
  \/ WxFetchSettled(t, "transport")
  \/ WxFetchSettled(t, "notok")

\* C14: getAllWeatherData runs its two fetches one after the other: the
\* forecast fetch is entered only in the step in which the current fetch of
\* the same call ends, and the call, which never rejects, resolves with
\* { current, forecast } made of what each of the two fetches returned.
C14_Sequential ==
  [][/\ Awaited(wx', "forecast") > Awaited(wx, "forecast") =>
          /\ Awaited(wx', "current") < Awaited(wx, "current")
          /\ result'.settled = "resolved"
     /\ result'.all \in {"none", "resolved"}
     /\ \A t \in BagToSet(wx) :
          Completes(t) /\ t.all =>
            IF t.kind = "forecast"
              THEN /\ result'.all = "resolved"
                   /\ result'.allValue =
                        [current |-> t.cur, forecast |-> result'.value]
            ELSE IF HasCoordinates(location)
              THEN /\ result'.all = "none"
                   /\ BagIn(WxTask("forecast", location, TRUE, result'.value),
                            wx')
              ELSE /\ result'.all = "resolved"
                   /\ result'.allValue =
                        [current |-> result'.value, forecast |-> Null]]_vars

\* A getAllWeatherData has resolved with both payloads, each the one its
\* fetch stored.
C14_Witness ==
  /\ result.all = "resolved"
  /\ result.allValue.current # Null
  /\ result.allValue.forecast # Null
  /\ result.allValue.forecast = result.value
  /\ weatherData.current = result.allValue.current
  /\ weatherData.forecast = result.allValue.forecast


\* The step persists the LocationRecord / the WeatherRecord.
PersistsLocation ==
  \/ \E o \in Origins, fix \in Fixes :
       PositionSuccess(o, fix) /\ ~AccuracyRejected(fix.accuracy)
  \/ \E t \in BagToSet(geo), data \in GeoData :
       GeoJsonSettled(t, data) /\ data.kind # "invalid"
PersistsWeather == \E t \in BagToSet(wx) : WxJsonSettled(t, TRUE)

\* What a reload after the step finds: restore over the defaults.
ReloadedLocation(st) == restoreLocationFromStorage(st, DefaultLocation)
ReloadedWeather(st) == restoreWeatherFromStorage(st, DefaultWeather)

\* e is the instant d as JSON gives it back: null for null, the text of
\* the Date otherwise.
SameInstant(d, e) ==
  /\ e.ms = d.ms
  /\ e.type = IF d.type = "null" THEN "null" ELSE "string"

\* C15: a persist followed by a restore over the default in-memory state,
\* as after a reload, reproduces an equivalent record: every field of the
\* LocationRecord and of the WeatherRecord has the value it had, lastUpdate
\* as the same instant (a Date when persisted, its text when restored).
C15_RoundTrip ==
  [][/\ PersistsLocation =>
          LET r == ReloadedLocation(storage')
          IN  /\ [r EXCEPT !.lastUpdate = NoDate]
                   = [location' EXCEPT !.lastUpdate = NoDate]
              /\ SameInstant(location'.lastUpdate, r.lastUpdate)
     /\ PersistsWeather =>
          LET w == ReloadedWeather(storage')
          IN  /\ w.current = weatherData'.current
              /\ w.forecast = weatherData'.forecast
              /\ SameInstant(weatherData'.lastUpdate, w.lastUpdate)]_vars

\* Both records are persisted with a stamp of clock reading 1, held as a
\* Date in memory and as text in storage; the weather record has both
\* payloads.
C15_Witness ==
  /\ location.lastUpdate = NewDate(1)
  /\ storage.userLocation # Null
  /\ ReloadedLocation(storage).lastUpdate = DateJSON(NewDate(1))
  /\ weatherData.lastUpdate = NewDate(1)
  /\ weatherData.current # Null /\ weatherData.forecast # Null
  /\ storage.weatherData # Null
  /\ ReloadedWeather(storage).lastUpdate = DateJSON(NewDate(1))
  /\ ReloadedWeather(storage).forecast = weatherData.forecast


\* C16: restore is idempotent: after a restore of the LocationRecord (by
\* init or by a page script) or of the WeatherRecord, which leave the
\* storage as it is, a second restore right away would leave the in-memory
\* record as the first left it.
C16_RestoreIdempotent ==
  [][/\ init \/ RestoreLocation =>
          /\ storage' = storage
          /\ restoreLocationFromStorage(storage', location') = location'
     /\ RestoreWeather =>
          /\ storage' = storage
          /\ restoreWeatherFromStorage(storage', weatherData') = weatherData']_vars

\* Both records have been restored from a storage that holds both.
C16_Witness ==
  /\ phase = "ready"
  /\ storage.userLocation # Null
  /\ location = Val(storage.userLocation)
  /\ storage.weatherData # Null
  /\ weatherData = Val(storage.weatherData)
  /\ weatherData # DefaultWeather

\* C17: after init the in-memory LocationRecord equals the record stored
\* under 'userLocation', field for field, whatever its accuracy and its
\* age (a stale record or one above the threshold is taken as it is); with
\* nothing stored the default record stays.
C17_RestoreAsStored ==
  [][init =>
       IF storage.userLocation # Null
         THEN location' = Val(storage.userLocation)
         ELSE location' = DefaultLocation]_vars

\* init has taken a record of accuracy 120.0 m that is 301 s old, for which
\* isLocationValid(5) has just returned false.
C17_Witness ==
  /\ phase = "ready"
  /\ location.accuracy = Some(1200)
  /\ location.lastUpdate.type = "string"
  /\ now - location.lastUpdate.ms = 301000
  /\ result = Returns(FALSE)


\* C18: in every reachable state the latitude and the longitude of the
\* LocationRecord are both null or both non-null, in memory and in the
\* record persisted under 'userLocation'.
C18_Paired ==
  /\ (location.latitude = Null) <=> (location.longitude = Null)
  /\ storage.userLocation # Null =>
       ((Stored.latitude = Null) <=> (Stored.longitude = Null))

\* A fix on the equator is committed and persisted: latitude 0, which is
\* not null, and its longitude.
C18_Witness ==
  /\ location.latitude = Some(0)
  /\ location.longitude # Null
  /\ storage.userLocation # Null
  /\ Stored.latitude = Some(0)
  /\ Stored.longitude = location.longitude


\* The step is a success callback that passes the accuracy check and
\* assigns the coordinates of its fix.
Commits ==
  \E o \in Origins, fix \in Fixes :
    /\ PositionSuccess(o, fix)
    /\ ~AccuracyRejected(fix.accuracy)
    /\ location'.latitude = Some(fix.latitude)
    /\ location'.longitude = Some(fix.longitude)

\* lastUpdate is null exactly when the coordinates are.
StampedWithCoordinates(loc) ==
  (loc.lastUpdate.type = "null") <=> ~NonNullCoordinates(loc)

Acquired(loc) ==
  <<loc.latitude, loc.longitude, loc.accuracy, loc.source, loc.lastUpdate>>

\* C20: once init has restored it, only a successful acquisition that
\* passes the accuracy check changes the latitude, longitude, accuracy,
\* source or lastUpdate of the LocationRecord: no failed or rejected
\* acquisition, naming, weather fetch, validity query or display getter
\* does; and coordinates that are non-null stay non-null for as long as the
\* page is up.
C20_OnlyAcquisitionMutates ==
  [][phase = "ready" /\ phase' = "ready" =>
       /\ Acquired(location') # Acquired(location) => Commits
       /\ NonNullCoordinates(location) => NonNullCoordinates(location')]_vars

\* The record of an accepted fix has been named, the weather for it has
\* been stored, and a getter has just returned its accuracy.
C20_Witness ==
  /\ NonNullCoordinates(location)
  /\ location.source = "auto"
  /\ location.locationName # Null
  /\ weatherData.current # Null
  /\ result = ReturnsText(getAccuracyString(location))


\* The step is the failure of an acquisition: no geolocation, a provider
\* error, or a fix that the accuracy check rejects.
AcquisitionFails ==
  \/ \E o \in Origins : getCurrentLocation(o) /\ ~supported
  \/ \E o \in Origins, code \in ErrorCodes : PositionError(o, code)
  \/ \E o \in Origins, fix \in Fixes :
       PositionSuccess(o, fix) /\ AccuracyRejected(fix.accuracy)

\* The step is the failure of a reverse geocoding: the request fails or its
\* body does not parse.
NamingFails ==
  \E t \in BagToSet(geo) :
    \/ GeoFetchSettled(t, "transport")
    \/ GeoFetchSettled(t, "notok")
    \/ GeoJsonSettled(t, [kind |-> "invalid", list |-> <<>>])

\* The step is the failure of a weather or forecast fetch.
WeatherFails ==
  \E t \in BagToSet(wx) :
    \/ WxFetchSettled(t, "transport")
    \/ WxFetchSettled(t, "notok")
    \/ WxJsonSettled(t, FALSE)

\* C21, as claimed: every failure (of an acquisition, of a reverse
\* geocoding, of a weather or forecast fetch) leaves the LocationRecord and
\* the WeatherRecord as they were before it, and the next scheduled
\* acquisition still runs.
C21_AsClaimed ==
  [][AcquisitionFails \/ NamingFails \/ WeatherFails =>
       /\ location' = location
       /\ weatherData' = weatherData
       /\ TickScheduled']_vars

\* C21, amended: a failed acquisition and a failed weather or forecast
\* fetch leave both records as they were, in memory and in storage; a
\* failed reverse geocoding leaves them as they were except for
\* locationName, which becomes the coordinates of the record with four
\* decimals, in memory only; after each the next scheduled acquisition
\* still runs.
C21_FailureFrame ==
  [][/\ AcquisitionFails \/ WeatherFails =>
          /\ location' = location
          /\ weatherData' = weatherData
          /\ storage' = storage
          /\ TickScheduled'
     /\ NamingFails =>
          /\ location' =
               [location EXCEPT !.locationName = Some(FallbackName(location))]
          /\ weatherData' = weatherData
          /\ storage' = storage
          /\ TickScheduled']_vars

\* A reverse geocoding has just failed after the weather was stored: the
\* record holds the fix with the coordinates as its name, the stored record
\* has no name, and the weather is still there.
C21_Witness ==
  /\ result = Resolved(Null)
  /\ NonNullCoordinates(location)
  /\ location.locationName = Some(FallbackName(location))
  /\ storage.userLocation # Null
  /\ Stored.locationName = Null
  /\ weatherData.current # Null
  /\ TickScheduled


\* Reverse geocoding has been triggered for the coordinates of the record
\* and its request is on its way: the state a commit leaves.
NamingTriggered ==
  /\ HasCoordinates(location)
  /\ BagIn(GeoTask("fetch", location), geo)

\* A weather or forecast fetch for the coordinates of the record is in
\* flight or has stored its payload.
WeatherFollows ==
  /\ HasCoordinates(location)
  /\ \/ \E t \in BagToSet(wx) :
          /\ t.latitude = Val(location.latitude)
          /\ t.longitude = Val(location.longitude)
     \/ \E kind \in Kinds :
          weatherData[kind] =
            Some(Payload(kind, Val(location.latitude), Val(location.longitude)))

\* C22, as claimed: whenever an acquisition commits coordinates, reverse
\* geocoding is triggered for them and, the owner of the weather state
\* being notified, a weather fetch for the coordinates of the record
\* eventually follows.
C22_AsClaimed ==
  /\ [][Commits /\ HasCoordinates(location') =>
          BagIn(GeoTask("fetch", location'), geo')]_vars
  /\ NamingTriggered ~> WeatherFollows


\* C23: overlapping acquisitions are last-write-wins: whatever the record
\* holds and whatever else is in flight, a success callback whose fix
\* passes the accuracy check leaves its own fix in the record and in the
\* stored record; so of two acquisitions in flight together the one whose
\* callback runs last decides, in whatever order they were started.
C23_LastWriteWins ==
  [][\A o \in Origins, fix \in Fixes :
       PositionSuccess(o, fix) /\ ~AccuracyRejected(fix.accuracy) =>
         /\ HoldsFix(location', fix)
         /\ HoldsFix(Val(storage'.userLocation), fix)]_vars

\* Two acquisitions have completed with different accepted fixes, the less
\* accurate one last: the naming requests of both are on their way, and the
\* record and the stored record hold the later, less accurate fix.
C23_Witness ==
  /\ pending = [o \in Origins |-> 0]
  /\ HasCoordinates(location)
  /\ BagIn(GeoTask("fetch", location), geo)
  /\ \E f \in Fixes :
       /\ BagIn([pc |-> "fetch", latitude |-> f.latitude,
                 longitude |-> f.longitude], geo)
       /\ f.latitude # Val(location.latitude)
       /\ location.accuracy # Null
       /\ f.accuracy < Val(location.accuracy)
  /\ Stored.latitude = location.latitude
  /\ Stored.accuracy = location.accuracy


\* The name reverseGeocode derives from the answer for given coordinates.
NameAt(lat, lon) == PlaceName(PlaceAt(lat, lon))

\* C24: reverse geocoding names the record after the coordinates of its
\* request, not after those the record holds when the response arrives: a
\* response leaves the coordinates as they are and sets locationName, in
\* memory and in storage, to the name of the place that was asked for.
\* Hence a response for a first fix that arrives after a second fix was
\* committed and named leaves, with nothing in flight, the coordinates of
\* the second with the name of the first.
C24_NameOfRequest ==
  [][\A t \in BagToSet(geo) :
       GeoJsonSettled(t, [kind |-> "array",
                          list |-> <<PlaceAt(t.latitude, t.longitude)>>]) =>
         /\ location'.locationName = Some(NameAt(t.latitude, t.longitude))
         /\ location'.latitude = location.latitude
         /\ location'.longitude = location.longitude
         /\ storage'.userLocation = Some(LocationJSON(location'))]_vars

\* Nothing is in flight; the record and the stored record hold the
\* coordinates of the southern fix under the name of the northern place.
C24_Witness ==
  /\ pending = [o \in Origins |-> 0]
  /\ geo = EmptyBag
  /\ HasCoordinates(location)
  /\ Val(location.latitude) < 0
  /\ \E f \in FixesApart :
       /\ f.latitude > 0
       /\ location.locationName = Some(NameAt(f.latitude, f.longitude))
       /\ location.locationName
            # Some(NameAt(Val(location.latitude), Val(location.longitude)))
  /\ storage.userLocation = Some(LocationJSON(location))


\* C25: with the timer firing every 300000 ms and the provider answering
\* every request within the 20000 ms it is given, at most one acquisition
\* started by the timer is in flight at any time: when the timer fires, the
\* acquisition of the tick before has completed.
C25_OneTimerAcquisition ==
  /\ pending["timer"] <= 1
  /\ BagCardinality(refresh.ages) = pending["timer"]
  /\ pending["timer"] = 1 => refresh.sinceTick <= TIMEOUT

\* A tick of the timer committed a fix; a period later the next tick has
\* fired and its request is waiting, alone.
C25_Witness ==
  /\ pending["timer"] = 1
  /\ refresh.sinceTick = 0
  /\ location.lastUpdate.type = "Date"
  /\ now - location.lastUpdate.ms >= REFRESH_INTERVAL - TIMEOUT


\* The requests of bag b that are of a kind.
OfKind(b, kind) ==
  BagCardinality([t \in {u \in BagToSet(b) : u.kind = kind} |-> b[t]])

\* C26: no retry.  A step issues at most one request.  A failure issues
\* none to the collaborator that failed: a failed acquisition leaves one
\* request fewer with the provider (none fewer when there is no provider)
\* and the other requests as they are, a failed reverse geocoding leaves one
\* request fewer with the geocoding service, a failed weather or forecast
\* fetch leaves one request of its kind fewer.
C26_NoRetry ==
  [][/\ InFlight' <= InFlight + 1
     /\ AcquisitionFails =>
          /\ \A o \in Origins : pending'[o] <= pending[o]
          /\ supported =>
               pending'["timer"] + pending'["caller"]
                 = pending["timer"] + pending["caller"] - 1
          /\ geo' = geo /\ wx' = wx
     /\ NamingFails =>
          /\ BagCardinality(geo') = BagCardinality(geo) - 1
          /\ pending' = pending /\ wx' = wx
     /\ \A t \in BagToSet(wx) :
          (\/ WxFetchSettled(t, "transport")
           \/ WxFetchSettled(t, "notok")
           \/ WxJsonSettled(t, FALSE)) =>
            /\ OfKind(wx', t.kind) = OfKind(wx, t.kind) - 1
            /\ pending' = pending /\ geo' = geo]_vars

\* The provider has refused the only request there was: the call is
\* rejected and nothing is in flight.
C26_Witness ==
  /\ result = Rejected(getGeolocationsErrorMessage(PERMISSION_DENIED))
  /\ InFlight = 0
  /\ phase = "ready"


\* C27, as claimed: after init following a reload, the WeatherRecord in
\* memory is the record persisted under 'weatherData', as the
\* LocationRecord in memory is the record persisted under 'userLocation'.
C27_AsClaimed ==
  [][init =>
       /\ storage.userLocation # Null =>
            location' = Val(storage.userLocation)
       /\ storage.weatherData # Null =>
            weatherData' = Val(storage.weatherData)]_vars


\* The message the claim gives each failure kind.
FailureKinds ==
  {"unsupported", "permissionDenied", "timeout", "positionUnavailable",
   "unknown"}

KindOfCode(code) ==
  IF code = 1 THEN "permissionDenied"
  ELSE IF code = 2 THEN "positionUnavailable"
  ELSE IF code = 3 THEN "timeout"
  ELSE "unknown"

MessageOfKind(kind) ==
  CASE kind = "unsupported" -> "Geolocation not supported"
    [] kind = "permissionDenied" ->
         "Location access denied. Please enable location permissions."
    [] kind = "timeout" ->
         "Location request timed out (20s). Could not get accurate fix. Try again outdoors."
    [] kind = "positionUnavailable" -> "Location data unavailable."
    [] kind = "unknown" -> "An unexpected geolocation error occurred."

StoredPayload(st, kind) ==
  IF st.weatherData = Null THEN Null ELSE Val(st.weatherData)[kind]

\* C29, as claimed: a payload persisted under 'weatherData' is never
\* replaced by null; the stored current and the stored forecast each change
\* only to a newly fetched payload of their own kind, also across page
\* reloads.
C29_AsClaimed ==
  [][\A kind \in Kinds :
       StoredPayload(storage', kind) # StoredPayload(storage, kind) =>
         /\ StoredPayload(storage', kind) # Null
         /\ Val(StoredPayload(storage', kind)).kind = kind
         /\ \E t \in BagToSet(wx) :
              t.kind = kind /\ WxJsonSettled(t, TRUE)]_vars


\* The copies of task u in bag b.
Copies(u, b) == IF BagIn(u, b) THEN b[u] ELSE 0

\* C30, as claimed: within one getAllWeatherData call the forecast request
\* is issued for the coordinates of the current-conditions request, also
\* when an acquisition commits a new fix while the latter is in flight.
C30_AsClaimed ==
  [][\A t \in BagToSet(wx) :
       t.all /\ t.kind = "current" /\ Completes(t) =>
         \A u \in BagToSet(wx') :
           u.all /\ u.kind = "forecast" /\ Copies(u, wx') > Copies(u, wx) =>
             u.latitude = t.latitude /\ u.longitude = t.longitude]_vars


\* The latitude, longitude, accuracy and stamp of a record are those of one
\* accepted fix, stamped no later than the clock reads; or the record holds
\* none of them.
OfOneFix(loc) ==
  \/ /\ loc.latitude = Null /\ loc.longitude = Null
     /\ loc.accuracy = Null /\ loc.lastUpdate.type = "null"
  \/ \E fix \in Fixes :
       /\ ~AccuracyRejected(fix.accuracy)
       /\ HoldsFix(loc, fix)
       /\ loc.lastUpdate.type # "null"
       /\ loc.lastUpdate.ms <= now

\* C31: a commit is atomic: in every reachable state, under any
\* interleaving of overlapping acquisitions, the latitude, longitude,
\* accuracy and lastUpdate of the LocationRecord, in memory and as
\* persisted, come from one accepted fix; no state mixes two fixes.
C31_AtomicCommit ==
  /\ OfOneFix(location)
  /\ storage.userLocation # Null => OfOneFix(Stored)

\* Two acquisitions have committed different fixes, the second at clock
\* reading 1: the naming requests of both are in flight and the record
\* holds the second fix whole.
C31_Witness ==
  /\ now = 1
  /\ location.lastUpdate = NewDate(1)
  /\ BagIn(GeoTask("fetch", location), geo)
  /\ \E t \in BagToSet(geo) : t.latitude # Val(location.latitude)
  /\ \E fix \in Fixes : HoldsFix(location, fix) /\ HoldsFix(Stored, fix)


\* C32: after init, between any two steps, whenever the LocationRecord in
\* memory has non-null coordinates the record persisted under
\* 'userLocation' has the same coordinates, accuracy and source, and the
\* same instant as lastUpdate.
C32_StoredFollowsMemory ==
  phase = "ready" /\ NonNullCoordinates(location) =>
    /\ storage.userLocation # Null
    /\ Stored.latitude = location.latitude
    /\ Stored.longitude = location.longitude
    /\ Stored.accuracy = location.accuracy
    /\ Stored.source = location.source
    /\ SameInstant(location.lastUpdate, Stored.lastUpdate)

\* A fix was committed at clock reading 1 and its naming failed: the name
\* in memory is the fallback, the stored record has no name, and the other
\* fields agree.
C32_Witness ==
  /\ phase = "ready"
  /\ location.lastUpdate = NewDate(1)
  /\ location.locationName = Some(FallbackName(location))
  /\ Stored.locationName = Null
  /\ Stored.latitude = location.latitude


\* C33: source tracks provenance: in every state reachable from the
\* defaults, source is 'none' exactly while the coordinates are null and
\* 'auto' once a fix has been committed; it is never 'manual'.
C33_SourceTracksProvenance ==
  /\ location.source \in {"none", "auto"}
  /\ location.source = "none" <=> ~NonNullCoordinates(location)
  /\ location.source = "none" <=>
       location.latitude = Null /\ location.longitude = Null
  /\ storage.userLocation # Null => Stored.source = "auto"

\* A fix on the equator was committed, the page was loaded again and init
\* has restored the record: latitude 0, source 'auto'.
C33_Witness ==
  /\ phase = "ready"
  /\ location.source = "auto"
  /\ location.latitude = Some(0)
  /\ location.lastUpdate.type = "string"


\* The 4-decimal rendering of a pair of coordinates.
Rendered4(lat, lon) == CoordToFixed(lat, 4) \o ", " \o CoordToFixed(lon, 4)

\* C34: whenever reverseGeocode sets the numeric fallback name (the request
\* fails, answers with a non-OK status or with a body that does not parse),
\* the name is the 4-decimal rendering of the coordinates the LocationRecord
\* holds at that moment, and not that of the coordinates the request was
\* issued for when a newer fix has replaced them.
C34_FallbackOfCurrent ==
  [][\A t \in BagToSet(geo) :
       (\/ GeoFetchSettled(t, "transport")
        \/ GeoFetchSettled(t, "notok")
        \/ GeoJsonSettled(t, [kind |-> "invalid", list |-> <<>>])) =>
         /\ location'.locationName =
              Some(Rendered4(Val(location.latitude), Val(location.longitude)))
         /\ Some(t.latitude) # location.latitude =>
              location'.locationName
                # Some(Rendered4(t.latitude, t.longitude))]_vars

\* Two fixes were committed and one of the two requests has failed while
\* the request for the fix the record holds is still in flight: the name is
\* the rendering of the coordinates the record holds.
C34_Witness ==
  /\ location.latitude = Some(-61236)
  /\ pending = [o \in Origins |-> 0]
  /\ BagToSet(geo) = {GeoTask("fetch", location)}
  /\ location.locationName = Some(Rendered4(-61236, 10168690))
  /\ Stored.locationName = Null


\* The instant of a stamp on the scale of the clock; null precedes them all.
Instant(d) == IF d.type = "null" THEN -1 ELSE d.ms

\* C35: within a session (while the page is up) the lastUpdate of the
\* LocationRecord and that of the WeatherRecord never move backwards, in
\* whatever order overlapping acquisitions and fetches complete; a step that
\* stamps takes the reading of the clock at completion.
C35_StampsMonotone ==
  [][phase = "ready" /\ phase' = "ready" =>
       /\ Instant(location'.lastUpdate) >= Instant(location.lastUpdate)
       /\ Instant(weatherData'.lastUpdate) >= Instant(weatherData.lastUpdate)
       /\ location'.lastUpdate # location.lastUpdate =>
            location'.lastUpdate = NewDate(now)
       /\ weatherData'.lastUpdate # weatherData.lastUpdate =>
            weatherData'.lastUpdate = NewDate(now)]_vars

\* Both payloads are stored, the later one fetched at clock reading 1, for
\* a fix committed at clock reading 0 and restored by a later page load.
C35_Witness ==
  /\ now = 1
  /\ weatherData.current # Null /\ weatherData.forecast # Null
  /\ weatherData.lastUpdate = NewDate(1)
  /\ location.lastUpdate = [type |-> "string", ms |-> 0]


\* The run of start() waiting at index i enters goToStep in this step.
EntersGoToStep(i) == DelayElapsed(i) /\ i + 1 < progress.steps

\* C36, as claimed: goToStep is never executed while overlay is null: once
\* hide() has removed the overlay, the step sequence started by show()
\* performs no further goToStep and no run of start() fails.
C36_AsClaimed ==
  [][/\ \A i \in BagToSet(progress.loops) :
          EntersGoToStep(i) => progress.overlay
     /\ ~progress'.thrown]_vars

\* The step is a call of show() after hide() has been called on the overlay
\* that is up.
ShowAfterHide(n) == show(n) /\ progress.last = "hide"

\* C37, as claimed: a show(steps) issued after hide() results in a
\* displayed overlay for the new steps, also during the fade-out of the
\* overlay before it, and that overlay stays until the next hide(): the
\* timer of an earlier hide() does not remove it.
C37_AsClaimed ==
  [][/\ \A n \in StepCounts :
          ShowAfterHide(n) =>
            /\ progress'.overlay /\ progress'.opacity = 1
            /\ progress'.steps = n /\ progress'.currentStep = 0
     /\ FadeElapsed /\ progress.overlay /\ progress.opacity = 1 =>
          progress'.overlay]_vars

\* The trimmed text, said without recursion: the stretch of the text from
\* its first to its last character that is not a space.
Trimmed(text) ==
  LET solid == {k \in 1..Len(text) : text[k] # " "}
  IN  IF solid = {} THEN <<>>
      ELSE SubSeq(text, CHOOSE a \in solid : \A k \in solid : a <= k,
                        CHOOSE b \in solid : \A k \in solid : b >= k)

\* C38: showPrompt resolves its promise at most once and with the right
\* value: with required = true a confirm (button or Enter) on an input that
\* is empty once trimmed neither resolves the promise nor closes the
\* dialog; the first confirm with a non-empty input resolves with the
\* trimmed value; the first cancel, Escape or backdrop click resolves with
\* null; no later event changes the result.
C38_ResolvesOnce ==
  [][/\ handleConfirm /\ prompt.required /\ Trimmed(prompt.input) = <<>> =>
          /\ prompt'.resolved = prompt.resolved
          /\ prompt'.dialog = prompt.dialog
          /\ prompt'.calls = prompt.calls
     /\ handleConfirm /\ ~prompt.resolved /\ Trimmed(prompt.input) # <<>> =>
          /\ prompt'.resolved /\ ~prompt'.isNull
          /\ prompt'.value = Trimmed(prompt.input)
          /\ prompt'.dialog = "fading"
     /\ \A how \in Dismissals :
          Dismiss(how) /\ ~prompt.resolved =>
            prompt'.resolved /\ prompt'.isNull /\ prompt'.dialog = "fading"
     /\ prompt.resolved /\ prompt'.dialog # "none" =>
          /\ prompt'.resolved
          /\ prompt'.isNull = prompt.isNull
          /\ prompt'.value = prompt.value]_vars

\* The promise was resolved with the trimmed text "k l"; while the dialog
\* faded the user emptied the input and another event called resolve; the
\* dialog has been removed and the result is still "k l".
C38_Witness ==
  /\ prompt.dialog = "removed"
  /\ prompt.resolved /\ ~prompt.isNull
  /\ prompt.value = <<"k", " ", "l">>
  /\ prompt.input = <<>>
  /\ prompt.calls = 2

====
